---- MODULE Spec2Model ----
(***************************************************************************)
(* Availability Genie - Outlook Bridge.                                    *)
(*                                                                         *)
(* A model of the browser extension that carries busy-time events from an  *)
(* Outlook Web tab (the source) to Availability Genie tabs (the           *)
(* consumers):                                                             *)
(*   - the background service worker (tab registry and router),            *)
(*   - the Genie content script (page bridge),                             *)
(*   - the Outlook content script in its three variants (cached Graph      *)
(*     token, OWA session REST call, DOM scraper).                         *)
(*                                                                         *)
(* Three specifications share the module:                                  *)
(*   SpecEngine  the Outlook content script of one build, driven by        *)
(*               FETCH_CALENDAR_EVENTS commands, token broadcasts and      *)
(*               network responses;                                        *)
(*   Spec        the service worker with the tabs, the content scripts'    *)
(*               messages and the manual triggers around it;               *)
(*   SpecClock   one call of the scraper's to24h on any text its pattern   *)
(*               matches.                                                  *)
(***************************************************************************)
EXTENDS Integers, Sequences, FiniteSets, Bags, TLC

VARIABLES
    (* ---- Outlook content script (extraction engine) ---- *)
    strategy,     \* which content-outlook.js variant the build ships
    tz,           \* the browser's UTC offset in minutes (Date's local zone)
    pages,        \* the provider's paginated answer to the calendar-view query
    dom,          \* the [aria-label] elements of the Outlook page, in document order
    cachedToken,  \* part_001: let cachedToken
    tokenHist,    \* history: why cachedToken is what it is ("never" | "captured" | "cleared401")
    lastToken,    \* history: the token of the last AG_TOKEN_CAPTURED that carried one
    nCmd,         \* number of FETCH_CALENDAR_EVENTS commands received so far
    proc          \* one fetchCalendarEvents() activation per command

engineVars == <<strategy, tz, pages, dom, cachedToken, tokenHist, lastToken, nCmd, proc>>

VARIABLES
    (* ---- service worker, tabs and Genie content scripts ---- *)
    tabs,         \* the browser's tabs: URL, and whether the content script has loaded
    active,       \* the active tab of the focused window (0: none)
    genieTabs,    \* part_000: const genieTabs = new Set()
    inbox,        \* chrome.runtime messages waiting for the service worker's listener
    outbox,       \* chrome.tabs.sendMessage calls not yet settled
    tasks,        \* the worker's async activations, each awaiting a chrome.* call
    pending,      \* per Outlook tab: FETCH_CALENDAR_EVENTS commands being worked on
    posted,       \* per tab: what the Genie content script last posted to its page
    nSync,        \* page requests and manual triggers so far
    externalEvents, \* per tab: part_008 useExternalCalendar's externalEvents state
    relayed       \* history: the events lists the worker has relayed, oldest first

routerVars == <<tabs, active, genieTabs, inbox, outbox, tasks, pending, posted, nSync,
                externalEvents, relayed>>

VARIABLES
    (* ---- one call of the scraper's to24h helper ---- *)
    timeStr,      \* the clock text handed to to24h
    converted     \* what to24h returned for it (<<>> before the call)

clockVars == <<timeStr, converted>>

VARIABLES
    (* ---- one call of page code through content-outlook-main.js's wrappers ---- *)
    pageCall,     \* the call the page makes: fetch(input, init), or xhr.open(method, url)
                  \* followed by xhr.setRequestHeader(name, value)
    effect        \* what the wrappers have done for it so far

hookVars == <<pageCall, effect>>

vars == <<engineVars, routerVars, clockVars, hookVars>>

----------------------------------------------------------------------------
(* Bounds of the model *)

MaxCommands == 2      \* FETCH_CALENDAR_EVENTS commands in one behaviour
MaxPages == 2         \* pages of one calendar-view answer
MaxElems == 2         \* [aria-label] elements of one Outlook page
MaxTabs == 3          \* tabs ever opened in one behaviour
MaxSyncs == 1         \* page requests and manual triggers in one behaviour
MaxOverlap == 2       \* page requests in one behaviour of SpecOverlap

Null == "null"        \* JavaScript null / undefined

----------------------------------------------------------------------------
(* Time and date values *)

\* String(n).padStart(2, '0') for 0 <= n <= 99, as its two digits
Pad2(n) == <<n \div 10, n % 10>>

\* `${pad(h)}:${pad(m)}`: the four digits of "HH:MM" (the colon is fixed)
HHMM(h, m) == Pad2(h) \o Pad2(m)

\* "HH:MM" strings compared as JavaScript compares strings (digit by digit)
TimeLess(a, b) ==
    \E i \in 1..4 : /\ a[i] < b[i]
                    /\ \A j \in 1..(i - 1) : a[j] = b[j]

dayNames == <<"Sunday", "Monday", "Tuesday", "Wednesday", "Thursday", "Friday", "Saturday">>

\* A Date object is its instant: minutes since 2026-03-00T00:00Z, so that day
\* d of an instant is March d, 2026 (March 1, 2026 is a Sunday).
GetHours(inst) == ((inst + tz) % 1440) \div 60
GetMinutes(inst) == ((inst + tz) % 1440) % 60
GetDate(inst) == (inst + tz) \div 1440
GetDay(inst) == (GetDate(inst) - 1) % 7

\* "YYYY-MM-DD" of March d, 2026
IsoOfDay(d) == "2026-03-" \o ToString(d \div 10) \o ToString(d % 10)

\* `${d.getFullYear()}-${pad(d.getMonth() + 1)}-${pad(d.getDate())}`
toISODate(inst) == IsoOfDay(GetDate(inst))

\* new Date("2026-03-02T09:30:00"): no zone marker, read as local wall-clock time
ParseLocal(dt) == dt.day * 1440 + dt.min - tz
\* new Date("2026-03-02T09:30:00" + "Z"): read as UTC
ParseUTC(dt) == dt.day * 1440 + dt.min

----------------------------------------------------------------------------
(* The provider's events and pages (both API variants) *)

ApiStrategies == {"token", "rest"}

\* showAs (Graph) / ShowAs (OWA REST) values, in each API's own casing
FreeMarker(s) == IF s = "token" THEN "free" ELSE "Free"
BusyMarker(s) == IF s = "token" THEN "busy" ELSE "Busy"

Morning == [start |-> [day |-> 8, min |-> 570], end |-> [day |-> 8, min |-> 600]]
LateNight == [start |-> [day |-> 8, min |-> 1380], end |-> [day |-> 9, min |-> 60]]
SmallHours == [start |-> [day |-> 9, min |-> 270], end |-> [day |-> 9, min |-> 330]]

\* Titles are sequences of characters
Busy == <<"B", "u", "s", "y">>
Standup == <<"S", "t", "a", "n", "d", "u", "p">>
Lunch == <<"L", "u", "n", "c", "h">>
Review == <<"R", "e", "v", "i", "e", "w">>

RawEvent(showAs, subject, iv) ==
    [showAs |-> showAs, subject |-> subject, start |-> iv.start, end |-> iv.end]

\* The bodies (`value` arrays) the provider serves, page by page
PageBase(s) ==
    << <<RawEvent(BusyMarker(s), Standup, Morning), RawEvent(FreeMarker(s), Lunch, Morning)>>,
       <<RawEvent(BusyMarker(s), <<>>, LateNight)>>,
       <<RawEvent(FreeMarker(s), <<>>, SmallHours), RawEvent(BusyMarker(s), Review, SmallHours)>>,
       << >> >>

\* An answer of n pages: n consecutive bodies; page i carries @odata.nextLink iff i < n
PageSets(s) ==
    { SubSeq(PageBase(s), r[1], r[1] + r[2] - 1) :
        r \in { q \in (1..Len(PageBase(s))) \X (1..MaxPages) :
                   q[1] + q[2] - 1 <= Len(PageBase(s)) } }

TzOffsets == {-300, 60}

----------------------------------------------------------------------------
(* fetchCalendarEvents: filter and map (part_001 110-126, part_003 87-103) *)

RECURSIVE SelectSeq2(_, _)
\* Array.prototype.filter with a predicate given as the set of kept `showAs` tests
SelectSeq2(seq, dropped) ==
    IF seq = <<>> THEN <<>>
    ELSE IF Head(seq).showAs # dropped
         THEN <<Head(seq)>> \o SelectSeq2(Tail(seq), dropped)
         ELSE SelectSeq2(Tail(seq), dropped)

\* part_001: parseGraphDateTime(e.start.dateTime); part_003: new Date(e.Start.DateTime + 'Z')
ParseDateTime(s, dt) == IF s = "token" THEN ParseLocal(dt) ELSE ParseUTC(dt)

NormalizeEvent(s, e) ==
    LET startDt == ParseDateTime(s, e.start)
        endDt == ParseDateTime(s, e.end)
    IN [ title |-> IF e.subject # <<>> THEN e.subject ELSE Busy,
         start |-> HHMM(GetHours(startDt), GetMinutes(startDt)),
         end |-> HHMM(GetHours(endDt), GetMinutes(endDt)),
         date |-> toISODate(startDt),
         day |-> dayNames[GetDay(startDt) + 1] ]

\* A filter that tests the other API's casing of the marker
FilterFreeOtherCasing(s, allEvents) ==
    SelectSeq2(allEvents, IF s = "token" THEN "Free" ELSE "free")

\* .filter((e) => e.showAs !== 'free')   /   .filter((e) => e.ShowAs !== 'Free')
FilterFree(s, allEvents) == SelectSeq2(allEvents, FreeMarker(s))

FilterMap(s, allEvents) ==
    LET kept == FilterFree(s, allEvents)
    IN [i \in 1..Len(kept) |-> NormalizeEvent(s, kept[i])]

----------------------------------------------------------------------------
(* Messages the Outlook content script sends to the service worker *)

EventsReady(events) == [type |-> "OUTLOOK_EVENTS_READY", events |-> events]
EventsReadyWeek(events, weekOf) ==
    [type |-> "OUTLOOK_EVENTS_READY", events |-> events, weekOf |-> weekOf]
FetchError(error) == [type |-> "OUTLOOK_FETCH_ERROR", error |-> error]

ErrNoToken == "No Outlook session token captured yet."
ErrExpired == "Outlook session token expired."
ErrNotSignedIn == "Not signed in to Outlook."
ErrGraph(status) == "Graph API error " \o ToString(status)
ErrOwa(status) == "OWA calendar API error " \o ToString(status)
ErrNoEvents == "No calendar events found on the Outlook page."

BodyMaxLen == 120          \* body.slice(0, 120)

\* body.slice(0, 120)
sliceBody(body) == SubSeq(body, 1, IF Len(body) < BodyMaxLen THEN Len(body) ELSE BodyMaxLen)

\* `${text}${body ? ': ' + body.slice(0, 120) : ''}`
WithBody(text, body) == text \o (IF body # "" THEN ": " \o sliceBody(body) ELSE "")

----------------------------------------------------------------------------
(* The API variants: one activation of fetchCalendarEvents per command *)

Tokens == {"tokA", "tokB"}
Cookie == "cookie"          \* credentials: 'include' (part_003)

Statuses == {200, 401, 500}
Ok(status) == status \in 200..299          \* Response.ok

RECURSIVE RepeatStr(_, _)
RepeatStr(s, n) == IF n = 0 THEN "" ELSE s \o RepeatStr(s, n - 1)

\* await resp.text().catch(() => ''): nothing read, a short text, a text longer than the limit
Bodies == {"", "denied", RepeatStr("x", BodyMaxLen + 1)}

\* the first response an activation has received (history); the body is recorded when it is read
NoResponse == [status |-> 0, body |-> ""]
Response(status, body) ==
    [status |-> status, body |-> IF Ok(status) \/ status = 401 THEN "" ELSE body]

Commands == 1..MaxCommands

\* pc: "idle" (no command yet) | "first" (awaiting the first response)
\*     | "page" (awaiting a continuation page) | "done"
\* page, auth: the request in flight and the credential it carries
\* acc: allEvents; reqs: fetch() calls made; broke: left the loop by `break`
\* sent: the messages this activation has sent to the service worker
\* hist: tokenHist when the command was handled (history)
\* resp: the first response received (history)
IdleProc ==
    [pc |-> "idle", page |-> 0, auth |-> Null, acc |-> <<>>, reqs |-> 0,
     broke |-> FALSE, sent |-> <<>>, hist |-> "never", resp |-> NoResponse]

\* A handler in which both the .then and the .catch callback report
SettleBoth(p, msg) ==
    [p EXCEPT !.pc = "done", !.page = 0, !.auth = Null,
              !.sent = @ \o <<msg, FetchError("Unknown error fetching Outlook events.")>>]

\* .then(events => sendMessage(OUTLOOK_EVENTS_READY)) / .catch(err => sendMessage(OUTLOOK_FETCH_ERROR))
Settle(p, msg) ==
    [p EXCEPT !.pc = "done", !.page = 0, !.auth = Null, !.sent = Append(@, msg)]

\* a loop that sends a second request along with each one
IssueRequestPair(p, page) ==
    [p EXCEPT !.pc = IF page = 1 THEN "first" ELSE "page",
              !.page = page,
              !.auth = IF strategy = "token" THEN cachedToken ELSE Cookie,
              !.reqs = @ + 2]

\* await fetch(url, { headers: { Authorization: `Bearer ${cachedToken}` } })
IssueRequest(p, page) ==
    [p EXCEPT !.pc = IF page = 1 THEN "first" ELSE "page",
              !.page = page,
              !.auth = IF strategy = "token" THEN cachedToken ELSE Cookie,
              !.reqs = @ + 1]

\* return allEvents.filter(...).map(...)
Return(p) == Settle(p, EventsReady(FilterMap(strategy, p.acc)))

\* nextLink = data['@odata.nextLink']; while (nextLink) { await fetch(nextLink, ...) }
NextOrReturn(p) ==
    IF p.page < Len(pages) THEN IssueRequest(p, p.page + 1) ELSE Return(p)

\* if (!pageResp.ok) break;
PageNotOk(p) == Return([p EXCEPT !.broke = TRUE])

\* A fetchCalendarEvents without the guard on cachedToken
StartFetchUnguarded == IssueRequest([IdleProc EXCEPT !.hist = tokenHist], 1)

\* The first lines of fetchCalendarEvents, up to its first await
StartFetch ==
    IF strategy = "token" /\ cachedToken = Null
    THEN Settle([IdleProc EXCEPT !.hist = tokenHist], FetchError(ErrNoToken))
    ELSE IssueRequest([IdleProc EXCEPT !.hist = tokenHist], 1)

\* The error thrown for a first response that is not ok
FirstNotOk(status, body) ==
    IF strategy = "token"
    THEN IF status = 401 THEN ErrExpired ELSE WithBody(ErrGraph(status), body)
    ELSE IF status = 401 THEN ErrNotSignedIn ELSE WithBody(ErrOwa(status), body)

\* A handler that sends the first request again when it is rejected
FailFirstRetry(p, status, body) == IssueRequest(p, 1)

\* throw new Error(...) out of fetchCalendarEvents: the .catch callback reports it
FailFirst(p, status, body) == Settle(p, FetchError(FirstNotOk(status, body)))

\* A handler that drops the token on every rejected first request
TokenAfterFirstAnyError(status) ==
    IF strategy = "token" /\ ~Ok(status) THEN Null ELSE cachedToken

\* A 401 branch that throws without clearing the token
TokenAfterFirstKept(status) == cachedToken

\* if (resp.status === 401) { cachedToken = null; throw ... }
TokenAfterFirst(status) ==
    IF strategy = "token" /\ status = 401 THEN Null ELSE cachedToken

\* A listener that keeps the first token it was given
RetainFirst(token) == IF token # "" /\ cachedToken = Null THEN token ELSE cachedToken

\* if (... && event.data?.token) cachedToken = event.data.token
Retain(token) == IF token # "" THEN token ELSE cachedToken

\* window 'message' listener: AG_TOKEN_CAPTURED with a truthy token
TokenCaptured(token) ==
    /\ strategy = "token"
    /\ cachedToken' = Retain(token)
    /\ IF token # ""
       THEN tokenHist' = "captured" /\ lastToken' = token
       ELSE UNCHANGED <<tokenHist, lastToken>>
    /\ UNCHANGED <<strategy, tz, pages, dom, nCmd, proc, routerVars, clockVars, hookVars>>

\* chrome.runtime.onMessage listener: FETCH_CALENDAR_EVENTS (API variants)
FetchCommandApi ==
    /\ strategy \in ApiStrategies
    /\ nCmd < MaxCommands
    /\ nCmd' = nCmd + 1
    /\ proc' = [proc EXCEPT ![nCmd + 1] = StartFetch]
    /\ UNCHANGED <<strategy, tz, pages, dom, cachedToken, tokenHist, lastToken, routerVars, clockVars, hookVars>>

\* The first request's response arrives (and, when ok, its body is parsed)
FirstResponse(c, status, body) ==
    /\ proc[c].pc = "first"
    /\ proc' = [proc EXCEPT ![c] =
                  IF Ok(status)
                  THEN NextOrReturn([@ EXCEPT !.acc = pages[1], !.resp = Response(status, body)])
                  ELSE FailFirst([@ EXCEPT !.resp = Response(status, body)], status, body)]
    /\ cachedToken' = TokenAfterFirst(status)
    /\ tokenHist' = IF strategy = "token" /\ status = 401 THEN "cleared401" ELSE tokenHist
    /\ UNCHANGED <<strategy, tz, pages, dom, nCmd, lastToken, routerVars, clockVars, hookVars>>

\* A continuation page's response arrives (and, when ok, its body is parsed)
PageResponse(c, status) ==
    /\ proc[c].pc = "page"
    /\ proc' = [proc EXCEPT ![c] =
                  IF Ok(status)
                  THEN NextOrReturn([@ EXCEPT !.acc = @ \o pages[proc[c].page]])
                  ELSE PageNotOk(@)]
    /\ UNCHANGED <<strategy, tz, pages, dom, cachedToken, tokenHist, nCmd, lastToken, routerVars, clockVars, hookVars>>

----------------------------------------------------------------------------
(* The DOM variant: readCalendarFromDom (extension/content-outlook.js) *)

TitleMaxLen == 120         \* title.slice(0, 120)
KeyPrefixLen == 40         \* title.slice(0, 40)
MaxAncestorDepth == 12     \* while (node && depth < 12)

\* String.prototype.slice(0, n)
Slice(str, n) == SubSeq(str, 1, IF Len(str) < n THEN Len(str) ELSE n)

lowerDayNames ==
    <<"sunday", "monday", "tuesday", "wednesday", "thursday", "friday", "saturday">>

\* str.charAt(0).toUpperCase() + str.slice(1).toLowerCase(), on weekday names
capitalise(str) ==
    IF \E i \in 1..7 : lowerDayNames[i] = str
    THEN dayNames[CHOOSE i \in 1..7 : lowerDayNames[i] = str]
    ELSE str

\* A clock text "9:30 AM": the groups of /(\d{1,2}):(\d{2})\s*([AP]M)/i
Clock(h, mm, ampm) == [h |-> h, mm |-> mm, ampm |-> ampm]

\* a conversion that leaves the case of the meridiem as written
toUpperCaseLeft(ampm) == ampm

toUpperCase(ampm) == IF ampm = "am" THEN "AM" ELSE IF ampm = "pm" THEN "PM" ELSE ampm

to24h(c) ==
    LET ampm == toUpperCase(c.ampm)
        h == IF ampm = "PM" /\ c.h < 12 THEN c.h + 12
             ELSE IF ampm = "AM" /\ c.h = 12 THEN 0
             ELSE c.h
    IN Pad2(h) \o c.mm

\* What a label holds for the time patterns: kind "none" (no SINGLE_TIME match),
\* "single" (SINGLE_TIME only) or "range" (TIME_RANGE_FULL, groups s and e)
NoClock == Clock(0, <<0, 0>>, "AM")
TimeNone == [kind |-> "none", s |-> NoClock, e |-> NoClock]
TimeSingle(c) == [kind |-> "single", s |-> c, e |-> NoClock]
TimeRange(s, e) == [kind |-> "range", s |-> s, e |-> e]

\* A date text of a label or attribute: whether the pattern matched, the weekday
\* as written (DAY_DATE_INLINE group 1), whether Date can parse the date part,
\* whether that part is the ISO form (which Date reads as UTC), and the day.
NoText == [match |-> FALSE, day |-> "", valid |-> FALSE, iso |-> FALSE, d |-> 0]
InlineText(day, valid, d) == [match |-> TRUE, day |-> day, valid |-> valid, iso |-> FALSE, d |-> d]
NumericText(valid, iso, d) == [match |-> TRUE, day |-> "", valid |-> valid, iso |-> iso, d |-> d]

\* new Date(text) for a date without a time of day
ParseDateText(t) ==
    IF t.iso THEN ParseUTC([day |-> t.d, min |-> 0])
    ELSE ParseLocal([day |-> t.d, min |-> 0])

NoAncestor == [found |-> FALSE, date |-> Null, day |-> Null]

RECURSIVE WalkAncestors(_, _)
WalkAncestors(nodes, depth) ==
    IF nodes = <<>> \/ depth >= MaxAncestorDepth THEN NoAncestor
    ELSE LET node == Head(nodes)
         IN IF node.dataDate.match /\ node.dataDate.valid
            THEN [found |-> TRUE,
                  date |-> toISODate(ParseDateText(node.dataDate)),
                  day |-> dayNames[GetDay(ParseDateText(node.dataDate)) + 1]]
            ELSE IF node.inline.match /\ node.inline.valid
            THEN [found |-> TRUE,
                  date |-> toISODate(ParseDateText(node.inline)),
                  day |-> capitalise(node.inline.day)]
            ELSE IF node.numeric.match /\ node.numeric.valid
            THEN [found |-> TRUE,
                  date |-> toISODate(ParseDateText(node.numeric)),
                  day |-> dayNames[GetDay(ParseDateText(node.numeric)) + 1]]
            ELSE WalkAncestors(Tail(nodes), depth + 1)

\* A scraper that never walks up the tree
findDateAncestorNever(el) == NoAncestor

\* el.ancestors: the parentElement chain, nearest first
findDateAncestor(el) == WalkAncestors(el.ancestors, 0)

\* A scraper that prefers the date of an ancestor to the dates of the label
ResolveDateAncestorFirst(el) ==
    LET ancestor == findDateAncestor(el)
        dateA == IF el.inline.match /\ el.inline.valid
                 THEN toISODate(ParseDateText(el.inline)) ELSE Null
        dateB == IF el.numeric.match /\ el.numeric.valid
                 THEN toISODate(ParseDateText(el.numeric)) ELSE Null
    IN [date |-> IF ancestor.found THEN ancestor.date
                 ELSE IF dateA # Null THEN dateA ELSE dateB,
        day |-> IF el.inline.match THEN capitalise(el.inline.day)
                ELSE IF ancestor.found THEN ancestor.day
                ELSE IF dateB # Null THEN dayNames[GetDay(ParseDateText(el.numeric)) + 1]
                ELSE Null]

\* --- Extract date --- (strategies A, B, C)
ResolveDate(el) ==
    LET dayA == IF el.inline.match THEN capitalise(el.inline.day) ELSE Null
        dateA == IF el.inline.match /\ el.inline.valid
                 THEN toISODate(ParseDateText(el.inline)) ELSE Null
        useB == dateA = Null /\ el.numeric.match /\ el.numeric.valid
        dateB == IF useB THEN toISODate(ParseDateText(el.numeric)) ELSE dateA
        dayB == IF useB /\ dayA = Null
                THEN dayNames[GetDay(ParseDateText(el.numeric)) + 1] ELSE dayA
        ancestor == findDateAncestor(el)
        useC == dateB = Null /\ ancestor.found
    IN [date |-> IF useC THEN ancestor.date ELSE dateB,
        day |-> IF useC /\ dayB = Null THEN ancestor.day ELSE dayB]

\* --- Extract title ---
ExtractTitle(el) ==
    LET title == IF el.text # <<>> THEN el.text ELSE el.rest
    IN IF Slice(title, TitleMaxLen) # <<>> THEN Slice(title, TitleMaxLen) ELSE Busy

\* The event an element with a full time range yields
ScrapeEvent(el) ==
    [title |-> ExtractTitle(el),
     start |-> to24h(el.time.s),
     end |-> to24h(el.time.e),
     date |-> ResolveDate(el).date,
     day |-> ResolveDate(el).day]

\* A key built from the whole title
DedupKeyFullTitle(ev) ==
    << IF ev.date # Null THEN ev.date ELSE IF ev.day # Null THEN ev.day ELSE "?",
       ev.start, ev.end, ev.title >>

\* `${date ?? day ?? '?'}-${start}-${end}-${title.slice(0, 40)}`, as its four parts
DedupKey(ev) ==
    << IF ev.date # Null THEN ev.date ELSE IF ev.day # Null THEN ev.day ELSE "?",
       ev.start, ev.end, Slice(ev.title, KeyPrefixLen) >>

RECURSIVE ScanElementsAnyTime(_, _, _)
\* a loop that is content with a single clock time in the label
ScanElementsAnyTime(els, results, seen) ==
    IF els = <<>> THEN results
    ELSE IF Head(els).time.kind = "none"
         THEN ScanElementsAnyTime(Tail(els), results, seen)
         ELSE LET ev == ScrapeEvent(Head(els))
              IN IF DedupKey(ev) \in seen
                 THEN ScanElementsAnyTime(Tail(els), results, seen)
                 ELSE ScanElementsAnyTime(Tail(els), Append(results, ev), seen \cup {DedupKey(ev)})

RECURSIVE ScanElements(_, _, _)
\* for (const el of allLabelled) { ... }
ScanElements(els, results, seen) ==
    IF els = <<>> THEN results
    ELSE IF Head(els).time.kind # "range"
         THEN ScanElements(Tail(els), results, seen)
         ELSE LET ev == ScrapeEvent(Head(els))
              IN IF DedupKey(ev) \in seen
                 THEN ScanElements(Tail(els), results, seen)
                 ELSE ScanElements(Tail(els), Append(results, ev), seen \cup {DedupKey(ev)})

readCalendarFromDom == ScanElements(dom, <<>>, {})

\* The day of an ISO date of March 2026 (the order Array.prototype.sort gives them)
DayOfIso(date) == CHOOSE d \in 0..31 : IsoOfDay(d) = date

\* const dates = events.map((e) => e.date).filter(Boolean).sort(); dates[0] ?? null
WeekOf(events) ==
    LET dates == {events[i].date : i \in 1..Len(events)} \ {Null}
    IN IF dates = {} THEN Null
       ELSE CHOOSE w \in dates : \A x \in dates : DayOfIso(w) <= DayOfIso(x)

\* a listener without the events.length === 0 branch
ScrapeResultAlwaysReady ==
    EventsReadyWeek(readCalendarFromDom, WeekOf(readCalendarFromDom))

\* chrome.runtime.onMessage listener: FETCH_CALENDAR_EVENTS (DOM variant)
ScrapeResult ==
    IF Len(readCalendarFromDom) = 0
    THEN FetchError(ErrNoEvents)
    ELSE EventsReadyWeek(readCalendarFromDom, WeekOf(readCalendarFromDom))

FetchCommandScrape ==
    /\ strategy = "scrape"
    /\ nCmd < MaxCommands
    /\ nCmd' = nCmd + 1
    /\ proc' = [proc EXCEPT ![nCmd + 1] = Settle([IdleProc EXCEPT !.hist = tokenHist], ScrapeResult)]
    /\ UNCHANGED <<strategy, tz, pages, dom, cachedToken, tokenHist, lastToken, routerVars, clockVars, hookVars>>

(* The labelled elements of the modelled Outlook pages *)

RepeatChar(ch, n) == [i \in 1..n |-> ch]
LongTitleX == RepeatChar("a", KeyPrefixLen) \o <<"x">>
LongTitleY == RepeatChar("a", KeyPrefixLen) \o <<"y">>
LabelTitle == <<"T", "e", "a", "m">>

ElementTitles ==
    { [text |-> LongTitleX, rest |-> LabelTitle],
      [text |-> LongTitleY, rest |-> LabelTitle],
      [text |-> <<>>, rest |-> LabelTitle] }

ElementTimes ==
    { TimeRange(Clock(9, <<3, 0>>, "AM"), Clock(10, <<0, 0>>, "AM")),
      TimeRange(Clock(11, <<0, 0>>, "pm"), Clock(1, <<0, 0>>, "am")) }

DatedAncestor ==
    [dataDate |-> NumericText(TRUE, TRUE, 9), inline |-> NoText, numeric |-> NoText]

ElementDates ==
    { [inline |-> NoText, numeric |-> NoText, ancestors |-> <<>>],
      [inline |-> InlineText("Monday", TRUE, 9), numeric |-> NoText, ancestors |-> <<>>],
      [inline |-> InlineText("tuesday", FALSE, 0), numeric |-> NoText, ancestors |-> <<>>],
      [inline |-> NoText, numeric |-> NumericText(TRUE, FALSE, 9), ancestors |-> <<>>],
      [inline |-> NoText, numeric |-> NoText, ancestors |-> <<DatedAncestor>>] }

Element(time, title, date) ==
    [time |-> time, text |-> title.text, rest |-> title.rest,
     inline |-> date.inline, numeric |-> date.numeric, ancestors |-> date.ancestors]

UndatedAncestor == [dataDate |-> NoText, inline |-> NoText, numeric |-> NoText]
LaterAncestor ==
    [dataDate |-> NoText, inline |-> NoText, numeric |-> NumericText(TRUE, FALSE, 11)]

\* labels and ancestor chains in which several date sources are present
ConflictingDates ==
    { [inline |-> InlineText("Monday", TRUE, 9), numeric |-> NumericText(TRUE, FALSE, 10),
       ancestors |-> <<LaterAncestor>>],
      [inline |-> InlineText("tuesday", FALSE, 0), numeric |-> NumericText(TRUE, FALSE, 10),
       ancestors |-> <<LaterAncestor>>],
      [inline |-> InlineText("friday", FALSE, 0), numeric |-> NoText,
       ancestors |-> <<DatedAncestor>>],
      [inline |-> NoText, numeric |-> NoText,
       ancestors |-> [i \in 1..MaxAncestorDepth |-> UndatedAncestor] \o <<DatedAncestor>>],
      [inline |-> NoText, numeric |-> NoText,
       ancestors |-> [i \in 1..(MaxAncestorDepth - 1) |-> UndatedAncestor]
                     \o <<LaterAncestor, DatedAncestor>>] }

Elements ==
    { Element(time, title, date) :
        time \in ElementTimes, title \in ElementTitles, date \in ElementDates }
    \cup { Element(TimeRange(Clock(9, <<3, 0>>, "AM"), Clock(10, <<0, 0>>, "AM")),
                   [text |-> <<>>, rest |-> LabelTitle], date) : date \in ConflictingDates }
    \cup { [time |-> TimeSingle(Clock(9, <<3, 0>>, "AM")), text |-> <<>>, rest |-> LabelTitle,
            inline |-> NoText, numeric |-> NoText, ancestors |-> <<>>],
           [time |-> TimeNone, text |-> LabelTitle, rest |-> LabelTitle,
            inline |-> InlineText("Monday", TRUE, 9), numeric |-> NoText, ancestors |-> <<>>] }

Doms == UNION { [1..n -> Elements] : n \in 0..MaxElems }

----------------------------------------------------------------------------
(* The browser: tabs, URL match patterns, message delivery *)

NoTab == 0
TabIds == 1..MaxTabs

geniePatterns == <<"genie", "localhost">>
outlookPatterns == <<"office", "office365", "live", "cloud">>

GenieUrls == {geniePatterns[i] : i \in DOMAIN geniePatterns}
OutlookUrls == {outlookPatterns[i] : i \in DOMAIN outlookPatterns}
Urls == GenieUrls \cup OutlookUrls \cup {"other"}

Unused == [url |-> "unused", loaded |-> FALSE]
Closed == [url |-> "closed", loaded |-> FALSE]
Fresh(url) == [url |-> url, loaded |-> FALSE]

Open(t) == tabs[t].url \in Urls
Listening(t) == Open(t) /\ tabs[t].loaded
OpenTabs == {t \in TabIds : Open(t)}

RECURSIVE Ascending(_)
Ascending(S) ==
    IF S = {} THEN <<>>
    ELSE LET m == CHOOSE x \in S : \A y \in S : x <= y
         IN <<m>> \o Ascending(S \ {m})

\* chrome.tabs.query({ url: pattern })
Query(pattern) == Ascending({t \in OpenTabs : tabs[t].url = pattern})

\* one chrome.tabs.sendMessage call and what its .catch does
Send(to, msg, onFail, req) == [to |-> to, msg |-> msg, onFail |-> onFail, req |-> req]

Ready == [type |-> "GENIE_TAB_READY"]
FetchRequested == [type |-> "FETCH_OUTLOOK_EVENTS"]
FetchCommand == [type |-> "FETCH_CALENDAR_EVENTS"]
RelayEvents(events) == [type |-> "RELAY_OUTLOOK_EVENTS", events |-> events]
EventsImported(events) == [type |-> "OUTLOOK_EVENTS_IMPORTED", events |-> events]
BridgeError(error) == [type |-> "OUTLOOK_BRIDGE_ERROR", error |-> error]
NoPost == [type |-> "none"]

ErrNoOutlook == "No Outlook tab found."
ErrUnreachable == "Could not communicate with the Outlook tab."
ErrWorker == "Extension background worker is unreachable."

\* what an Outlook content script may answer to one command
SampleEvent(title) ==
    [title |-> title, start |-> HHMM(9, 30), end |-> HHMM(10, 0),
     date |-> IsoOfDay(8), day |-> dayNames[1]]
EngineReplies ==
    { EventsReady(<<SampleEvent(Standup)>>),
      EventsReadyWeek(<<SampleEvent(Lunch), SampleEvent(Review)>>, IsoOfDay(8)),
      FetchError(ErrNoToken) }

----------------------------------------------------------------------------
(* The Genie page: useExternalCalendar (part_008) *)

\* startOfWeek(new Date(), { weekStartsOn: 0 }): the Sundays March 1 and 8, 2026
WeekStarts == {1, 8}

\* dayMap[event.day] ?? 0
DayOffset(day) ==
    IF \E i \in 1..7 : dayNames[i] = day
    THEN (CHOOSE i \in 1..7 : dayNames[i] = day) - 1
    ELSE 0

\* new Date(year, month - 1, day, hour, minute, 0, 0) for the day the event
\* names: its ISO date if it has one, else its weekday in the current week
EventInstant(event, hhmm, currentWeekStart) ==
    ParseLocal([day |-> IF event.date # Null THEN DayOfIso(event.date)
                        ELSE currentWeekStart + DayOffset(event.day),
                min |-> 60 * (10 * hhmm[1] + hhmm[2]) + 10 * hhmm[3] + hhmm[4]])

convertExternalEvent(event, currentWeekStart) ==
    [id |-> <<EventInstant(event, event.start, currentWeekStart), event.title>>,
     title |-> IF event.title # <<>> THEN event.title ELSE Busy,
     start |-> EventInstant(event, event.start, currentWeekStart),
     end |-> EventInstant(event, event.end, currentWeekStart),
     source |-> "outlook-bridge"]

\* for (...) convertedEvents.push(convertExternalEvent(events[i], currentWeekStart))
ConvertAll(events, currentWeekStart) ==
    [i \in 1..Len(events) |-> convertExternalEvent(events[i], currentWeekStart)]

\* a page that appends the converted events to the ones it already shows
handleMessageAppend(t, data, currentWeekStart) ==
    IF data.type = "OUTLOOK_EVENTS_IMPORTED"
    THEN [externalEvents EXCEPT ![t] = @ \o ConvertAll(data.events, currentWeekStart)]
    ELSE externalEvents

\* window 'message' listener of the page in tab t: setExternalEvents(convertedEvents)
handleMessage(t, data, currentWeekStart) ==
    IF data.type = "OUTLOOK_EVENTS_IMPORTED"
    THEN [externalEvents EXCEPT ![t] = ConvertAll(data.events, currentWeekStart)]
    ELSE externalEvents

----------------------------------------------------------------------------
(* The background service worker (part_000)                                *)
(*                                                                         *)
(* Each run of a listener up to its next await is one step.  Messages to   *)
(* the worker are handled in arrival order (inbox), and the worker's       *)
(* sendMessage calls settle in the order they were made (outbox); a call   *)
(* to a tab without a loaded content script, or to a closed tab, rejects  *)
(* and runs its .catch.  Awaited chrome.tabs.query / update / create calls *)
(* of different activations resolve in any order (tasks).  A query lists   *)
(* matching tabs by ascending id, and genieTabs is iterated in that order. *)

RelaySingle(msg) ==
    IF genieTabs = {} THEN <<>>
    ELSE <<Send(CHOOSE t \in genieTabs : \A u \in genieTabs : t <= u, msg, "prune", NoTab)>>

\* for (const tabId of genieTabs) chrome.tabs.sendMessage(tabId, msg).catch(delete)
RelayAll(msg) ==
    LET order == Ascending(genieTabs)
    IN [i \in 1..Len(order) |-> Send(order[i], msg, "prune", NoTab)]

Task(kind, tab, pat) == [kind |-> kind, tab |-> tab, pat |-> pat]

\* the call fetchFromOutlookTab(req): runs up to its first await
StartFetchFrom(req) == SetToBag({Task("fetch", req, 1)})

\* a registration that takes out a tab that is already in
RegisterToggle(t) ==
    IF t = NoTab THEN genieTabs
    ELSE IF t \in genieTabs THEN genieTabs \ {t} ELSE genieTabs \cup {t}

\* if (id !== undefined) genieTabs.add(id)
Register(t) == IF t # NoTab THEN genieTabs \cup {t} ELSE genieTabs

\* chrome.runtime.onMessage listener
RouterReceive ==
    /\ inbox # <<>>
    /\ LET from == Head(inbox).from
           message == Head(inbox).msg
       IN /\ inbox' = Tail(inbox)
          /\ CASE message.type = "GENIE_TAB_READY" ->
                    /\ genieTabs' = Register(from)
                    /\ UNCHANGED <<outbox, tasks>>
               [] message.type = "FETCH_OUTLOOK_EVENTS" ->
                    /\ genieTabs' = Register(from)
                    /\ tasks' = tasks (+) StartFetchFrom(from)
                    /\ UNCHANGED outbox
               [] message.type = "OUTLOOK_EVENTS_READY" ->
                    /\ outbox' = outbox \o RelayAll(RelayEvents(
                                     IF "events" \in DOMAIN message THEN message.events ELSE <<>>))
                    /\ UNCHANGED <<genieTabs, tasks>>
               [] message.type = "OUTLOOK_FETCH_ERROR" ->
                    /\ outbox' = outbox \o RelayAll(FetchError(message.error))
                    /\ UNCHANGED <<genieTabs, tasks>>
          /\ relayed' = IF message.type = "OUTLOOK_EVENTS_READY"
                        THEN Append(relayed, IF "events" \in DOMAIN message
                                             THEN message.events ELSE <<>>)
                        ELSE relayed
    /\ UNCHANGED <<tabs, active, pending, posted, nSync, externalEvents>>

NoSourceBroadcast(req) ==
    LET order == Ascending(genieTabs)
    IN [i \in 1..Len(order) |-> Send(order[i], FetchError(ErrNoOutlook), "none", NoTab)]

\* fetchFromOutlookTab: no pattern matched
NoSourceFound(req) ==
    IF req # NoTab THEN <<Send(req, FetchError(ErrNoOutlook), "none", NoTab)>> ELSE <<>>

\* a choice of the last tab of a query's result
LastOf(found) == found[Len(found)]

\* outlookTab = tabs[0]
FirstOf(found) == found[1]

\* fetchFromOutlookTab: one awaited chrome.tabs.query resolves
FetchResolve(task) ==
    LET found == Query(outlookPatterns[task.pat])
        rest == tasks (-) SetToBag({task})
    IN /\ task.kind = "fetch"
       /\ IF Len(found) > 0
          THEN /\ outbox' = Append(outbox, Send(FirstOf(found), FetchCommand, "notify", task.tab))
               /\ tasks' = rest
          ELSE IF task.pat < Len(outlookPatterns)
          THEN /\ tasks' = rest (+) SetToBag({Task("fetch", task.tab, task.pat + 1)})
               /\ UNCHANGED outbox
          ELSE /\ outbox' = outbox \o NoSourceFound(task.tab)
               /\ tasks' = rest
       /\ UNCHANGED <<tabs, active, genieTabs, inbox, pending, posted, nSync, externalEvents, relayed>>

\* chrome.action.onClicked listener: one awaited chrome.tabs.query resolves
ClickResolve(task) ==
    LET found == Query(geniePatterns[task.pat])
        rest == tasks (-) SetToBag({task})
        genieTabId == IF Len(found) > 0 THEN found[1] ELSE task.tab
    IN /\ task.kind = "click"
       /\ IF Len(found) = 0 /\ task.pat < Len(geniePatterns)
          THEN /\ tasks' = rest (+) SetToBag({Task("click", task.tab, task.pat + 1)})
               /\ UNCHANGED genieTabs
          ELSE /\ genieTabs' = Register(genieTabId)
               /\ tasks' = rest (+) StartFetchFrom(genieTabId)
       /\ UNCHANGED <<tabs, active, inbox, outbox, pending, posted, nSync, externalEvents, relayed>>

\* chrome.commands.onCommand listener: one awaited chrome.* call resolves
CommandResolve(task) ==
    LET found == Query(geniePatterns[task.pat])
        rest == tasks (-) SetToBag({task})
        unused == {t \in TabIds : tabs[t] = Unused}
    IN /\ task.kind \in {"command", "activate", "focus", "create"}
       /\ CASE task.kind = "command" ->
                 /\ tasks' = rest (+) SetToBag({
                        IF Len(found) > 0 THEN Task("activate", found[1], 0)
                        ELSE IF task.pat < Len(geniePatterns)
                        THEN Task("command", NoTab, task.pat + 1)
                        ELSE Task("create", NoTab, 0)})
                 /\ UNCHANGED <<tabs, active, genieTabs>>
            [] task.kind = "activate" ->
                 \* chrome.tabs.update rejects for a tab that is gone
                 /\ IF Open(task.tab)
                    THEN /\ active' = task.tab
                         /\ tasks' = rest (+) SetToBag({Task("focus", task.tab, 0)})
                    ELSE /\ tasks' = rest
                         /\ UNCHANGED active
                 /\ UNCHANGED <<tabs, genieTabs>>
            [] task.kind = "focus" ->
                 /\ genieTabs' = Register(task.tab)
                 /\ tasks' = rest (+) StartFetchFrom(task.tab)
                 /\ UNCHANGED <<tabs, active>>
            [] task.kind = "create" ->
                 /\ unused # {}
                 /\ LET newTab == CHOOSE t \in unused : \A u \in unused : t <= u
                    IN /\ tabs' = [tabs EXCEPT ![newTab] = Fresh(geniePatterns[1])]
                       /\ active' = newTab
                       /\ genieTabs' = Register(newTab)
                 /\ tasks' = rest
       /\ UNCHANGED <<inbox, outbox, pending, posted, nSync, externalEvents, relayed>>

\* an error handler that tells every registered tab
SourceUnreachableBroadcast(req) ==
    LET order == Ascending(genieTabs)
    IN [i \in 1..Len(order) |-> Send(order[i], FetchError(ErrUnreachable), "none", NoTab)]

\* fetchFromOutlookTab: .catch of the FETCH_CALENDAR_EVENTS send
SourceUnreachable(req) ==
    IF req # NoTab THEN <<Send(req, FetchError(ErrUnreachable), "none", NoTab)>> ELSE <<>>

\* a bridge that hands the page only the first event of a relayed list
RepublishFirstOnly(to, message) ==
    IF message.type = "RELAY_OUTLOOK_EVENTS"
    THEN [posted EXCEPT ![to] = EventsImported(SubSeq(message.events, 1, 1))]
    ELSE IF message.type = "OUTLOOK_FETCH_ERROR"
    THEN [posted EXCEPT ![to] = BridgeError(message.error)]
    ELSE posted

\* content-genie.js: chrome.runtime.onMessage listener of the tab `to`
Republish(to, message) ==
    IF message.type = "RELAY_OUTLOOK_EVENTS"
    THEN [posted EXCEPT ![to] = EventsImported(message.events)]
    ELSE IF message.type = "OUTLOOK_FETCH_ERROR"
    THEN [posted EXCEPT ![to] = BridgeError(message.error)]
    ELSE posted

\* a pending chrome.tabs.sendMessage settles
Deliver ==
    /\ outbox # <<>>
    /\ LET call == Head(outbox)
           to == call.to
       IN IF Listening(to)
          THEN /\ outbox' = Tail(outbox)
               /\ UNCHANGED genieTabs
               \* content-genie.js: chrome.runtime.onMessage listener
               /\ posted' = IF tabs[to].url \in GenieUrls THEN Republish(to, call.msg) ELSE posted
               \* the Genie page's handleMessage runs on what was posted
               /\ \E now \in WeekStarts :
                      externalEvents' = IF tabs[to].url \in GenieUrls
                                        THEN handleMessage(to, posted'[to], now)
                                        ELSE externalEvents
               \* content-outlook: chrome.runtime.onMessage listener
               /\ pending' =
                    IF tabs[to].url \in OutlookUrls /\ call.msg.type = "FETCH_CALENDAR_EVENTS"
                    THEN [pending EXCEPT ![to] = @ + 1]
                    ELSE pending
          ELSE /\ UNCHANGED <<posted, pending, externalEvents>>
               /\ CASE call.onFail = "prune" ->
                         /\ genieTabs' = genieTabs \ {to}
                         /\ outbox' = Tail(outbox)
                    [] call.onFail = "notify" ->
                         /\ outbox' = Tail(outbox) \o SourceUnreachable(call.req)
                         /\ UNCHANGED genieTabs
                    [] call.onFail = "none" ->
                         /\ outbox' = Tail(outbox)
                         /\ UNCHANGED genieTabs
    /\ UNCHANGED <<tabs, active, inbox, tasks, nSync, relayed>>

----------------------------------------------------------------------------
(* Content scripts and the user *)

\* content-genie.js or a content-outlook variant starts running in its tab
LoadScript(t, reached) ==
    /\ Open(t) /\ ~tabs[t].loaded
    /\ tabs[t].url \in GenieUrls \cup OutlookUrls
    /\ tabs[t].url \in OutlookUrls => reached
    /\ tabs' = [tabs EXCEPT ![t].loaded = TRUE]
    /\ inbox' = IF tabs[t].url \in GenieUrls /\ reached
                THEN Append(inbox, [from |-> t, msg |-> Ready])
                ELSE inbox
    /\ UNCHANGED <<active, genieTabs, outbox, tasks, pending, posted, nSync, externalEvents, relayed>>

\* a bridge that stays silent when the forward fails
ForwardFailedSilent(t) == posted

\* content-genie.js: .catch of the FETCH_OUTLOOK_EVENTS send
ForwardFailed(t) == [posted EXCEPT ![t] = BridgeError(ErrWorker)]

\* the Genie page posts READ_OUTLOOK_CALENDAR
PageRequest(t, reached) ==
    /\ Listening(t) /\ tabs[t].url \in GenieUrls
    /\ nSync' = nSync + 1
    /\ IF reached
       THEN /\ inbox' = Append(inbox, [from |-> t, msg |-> FetchRequested])
            /\ UNCHANGED posted
       ELSE /\ posted' = ForwardFailed(t)
            /\ UNCHANGED inbox
    /\ UNCHANGED <<tabs, active, genieTabs, outbox, tasks, pending, externalEvents, relayed>>

\* the Outlook content script reports the outcome of one command
EngineReply(t, reply) ==
    /\ pending[t] > 0
    /\ pending' = [pending EXCEPT ![t] = @ - 1]
    /\ inbox' = Append(inbox, [from |-> t, msg |-> reply])
    /\ UNCHANGED <<tabs, active, genieTabs, outbox, tasks, posted, nSync, externalEvents, relayed>>

ToolbarClick ==
    /\ nSync < MaxSyncs
    /\ active # NoTab
    /\ nSync' = nSync + 1
    /\ tasks' = tasks (+) SetToBag({Task("click", active, 1)})
    /\ UNCHANGED <<tabs, active, genieTabs, inbox, outbox, pending, posted, externalEvents, relayed>>

Shortcut ==
    /\ nSync < MaxSyncs
    /\ nSync' = nSync + 1
    /\ tasks' = tasks (+) SetToBag({Task("command", NoTab, 1)})
    /\ UNCHANGED <<tabs, active, genieTabs, inbox, outbox, pending, posted, externalEvents, relayed>>

OpenTab(url) ==
    LET unused == {t \in TabIds : tabs[t] = Unused}
    IN /\ unused # {}
       /\ LET t == CHOOSE x \in unused : \A y \in unused : x <= y
          IN /\ tabs' = [tabs EXCEPT ![t] = Fresh(url)]
             /\ active' = t
       /\ UNCHANGED <<genieTabs, inbox, outbox, tasks, pending, posted, nSync, externalEvents, relayed>>

CloseTab(t) ==
    /\ Open(t)
    /\ tabs' = [tabs EXCEPT ![t] = Closed]
    /\ pending' = [pending EXCEPT ![t] = 0]
    /\ posted' = [posted EXCEPT ![t] = NoPost]
    /\ externalEvents' = [externalEvents EXCEPT ![t] = <<>>]
    /\ active' \in IF active # t THEN {active}
                   ELSE IF OpenTabs = {t} THEN {NoTab}
                   ELSE OpenTabs \ {t}
    /\ UNCHANGED <<genieTabs, inbox, outbox, tasks, nSync, relayed>>

----------------------------------------------------------------------------
(* The token capture interceptor (extension/content-outlook-main.js)       *)
(*                                                                         *)
(* A URL text is its host and whether 'graph.microsoft.com' occurs in it   *)
(* anywhere else (path, query); a header name is a string as written; a    *)
(* header value is a string of characters or something that is not a       *)
(* string.                                                                 *)

TOKEN_MSG == "AG_TOKEN_CAPTURED"
GRAPH_HOST == "graph.microsoft.com"

UrlText(host, mentions) == [host |-> host, mentions |-> mentions]
EmptyUrl == UrlText("", FALSE)

\* url.includes(GRAPH_HOST)
includes(url) == url.host = GRAPH_HOST \/ url.mentions

Str(text) == [str |-> TRUE, text |-> text]       \* a string value
NotStr == [str |-> FALSE, text |-> <<>>]         \* a number, an object, undefined
EmptyStr == Str(<<>>)

BearerPrefix == <<"B", "e", "a", "r", "e", "r", " ">>
BasicPrefix == <<"B", "a", "s", "i", "c", " ">>
Credential == <<"t", "0", "k">>

\* auth.startsWith('Bearer ')
startsWith(text, prefix) ==
    Len(text) >= Len(prefix) /\ SubSeq(text, 1, Len(prefix)) = prefix

\* auth.slice(7)
slice7(text) == SubSeq(text, 8, Len(text))

\* name.toLowerCase(), on the header names of the model
toLowerCase(name) ==
    IF name \in {"Authorization", "authorization", "AUTHORIZATION"} THEN "authorization"
    ELSE IF name = "Accept" THEN "accept"
    ELSE name

\* header containers: a Headers instance, a plain object, an array of pairs,
\* each with one header; or none (null / undefined)
NoHeaders == [kind |-> "none", name |-> "", value |-> EmptyStr]
HeaderBag(kind, name, value) == [kind |-> kind, name |-> name, value |-> value]

\* fetch's first argument: a string, a URL object or a Request
Input(form, url, headers) == [form |-> form, url |-> url, headers |-> headers]

\* fetch's second argument: undefined, or an object with or without headers
NoInit == [given |-> FALSE, headers |-> NoHeaders]
InitWith(headers) == [given |-> TRUE, headers |-> headers]

\* what the wrappers have done: the tokens posted, the original primitives
\* invoked with their arguments, whether a wrapper threw, and this.__agUrl
NoEffect ==
    [stage |-> "none", agUrl |-> EmptyUrl, emitted |-> <<>>, orig |-> <<>>, threw |-> FALSE]

\* window.postMessage({ type: TOKEN_MSG, token }, '*')
emitToken(e, token) == [e EXCEPT !.emitted = Append(@, [type |-> TOKEN_MSG, token |-> token])]

\* origFetch(input, init) / origOpen.apply(this, arguments) / origSetHeader.apply(this, arguments)
Original(e, prim, a, b) == [e EXCEPT !.orig = Append(@, [prim |-> prim, a |-> a, b |-> b])]

\* const url = typeof input === 'string' ? input : (input?.url ?? '')
UrlOfInput(input) == IF input.form = "URL" THEN EmptyUrl ELSE input.url

\* const h = init?.headers ?? (input instanceof Request ? input.headers : null)
HeadersOfCall(input, init) ==
    IF init.given /\ init.headers.kind # "none" THEN init.headers
    ELSE IF input.form = "Request" THEN input.headers
    ELSE NoHeaders

\* h.get('Authorization') ?? ''   /   h['Authorization'] ?? h['authorization'] ?? ''
AuthOf(h) ==
    IF h.kind = "Headers"
    THEN IF toLowerCase(h.name) = "authorization" THEN h.value ELSE EmptyStr
    ELSE IF h.kind = "object"
    THEN IF h.name \in {"Authorization", "authorization"} THEN h.value ELSE EmptyStr
    ELSE EmptyStr

\* the try block of the fetch wrapper; a throw inside it is caught
InspectFetch(e, input, init) ==
    LET auth == AuthOf(HeadersOfCall(input, init))
    IN IF ~includes(UrlOfInput(input)) THEN e
       ELSE IF ~auth.str THEN e                    \* auth.startsWith is not a function
       ELSE IF startsWith(auth.text, BearerPrefix) THEN emitToken(e, slice7(auth.text))
       ELSE e

\* window.fetch = function (input, init) { try {...} catch (_) {} return origFetch(input, init); }
fetch(e, input, init) ==
    [Original(InspectFetch(e, input, init), "fetch", input, init) EXCEPT !.stage = "done"]

\* XMLHttpRequest.prototype.open = function (method, url) {...}
open(e, url) ==
    [Original(e, "open", "GET", url) EXCEPT
        !.agUrl = IF url.form = "string" THEN url.url ELSE EmptyUrl,
        !.stage = "opened"]

\* XMLHttpRequest.prototype.setRequestHeader = function (name, value) {...}
setRequestHeader(e, name, value) ==
    IF ~includes(e.agUrl)
    THEN [Original(e, "setRequestHeader", name, value) EXCEPT !.stage = "done"]
    ELSE IF ~name.str                               \* name.toLowerCase is not a function
    THEN [e EXCEPT !.threw = TRUE, !.stage = "done"]
    ELSE IF /\ toLowerCase(name.text) = "authorization"
            /\ value.str
            /\ startsWith(value.text, BearerPrefix)
    THEN [Original(emitToken(e, slice7(value.text)), "setRequestHeader", name, value)
             EXCEPT !.stage = "done"]
    ELSE [Original(e, "setRequestHeader", name, value) EXCEPT !.stage = "done"]

(* The calls of the model *)

UrlTexts ==
    { UrlText(GRAPH_HOST, FALSE), UrlText("example.com", FALSE), UrlText("example.com", TRUE) }

HeaderValues == { Str(BearerPrefix \o Credential), Str(BasicPrefix \o Credential), NotStr }

HeaderNames == {"Authorization", "authorization", "AUTHORIZATION", "Accept"}

HeaderBags ==
    { HeaderBag("Headers", name, value) :
        name \in HeaderNames, value \in {v \in HeaderValues : v.str} }
    \cup { HeaderBag("object", name, value) : name \in HeaderNames, value \in HeaderValues }
    \cup { HeaderBag("array", "Authorization", Str(BearerPrefix \o Credential)) }

Inputs ==
    { Input(form, url, NoHeaders) : form \in {"string", "URL"}, url \in UrlTexts }
    \cup { Input("Request", url, h) :
             url \in UrlTexts,
             h \in {NoHeaders, HeaderBag("Headers", "Authorization", Str(BearerPrefix \o Credential))} }

Inits == {NoInit, InitWith(NoHeaders)} \cup {InitWith(h) : h \in HeaderBags}

FetchCalls == { [api |-> "fetch", input |-> input, init |-> init] : input \in Inputs, init \in Inits }

XhrCalls ==
    { [api |-> "xhr", url |-> Input(form, url, NoHeaders), name |-> name, value |-> value] :
        form \in {"string", "URL"}, url \in UrlTexts,
        name \in {Str(n) : n \in HeaderNames} \cup {[str |-> FALSE, text |-> ""]},
        value \in HeaderValues }

NoCall == [api |-> "none"]

HookIdle ==
    /\ pageCall = NoCall
    /\ effect = NoEffect

\* page code calls window.fetch(input, init)
CallFetch ==
    /\ pageCall.api = "fetch"
    /\ effect.stage = "none"
    /\ effect' = fetch(effect, pageCall.input, pageCall.init)
    /\ UNCHANGED <<pageCall, engineVars, routerVars, clockVars>>

\* page code calls xhr.open(method, url)
CallOpen ==
    /\ pageCall.api = "xhr"
    /\ effect.stage = "none"
    /\ effect' = open(effect, pageCall.url)
    /\ UNCHANGED <<pageCall, engineVars, routerVars, clockVars>>

\* page code calls xhr.setRequestHeader(name, value) on the opened request
CallSetRequestHeader ==
    /\ pageCall.api = "xhr"
    /\ effect.stage = "opened"
    /\ effect' = setRequestHeader(effect, pageCall.name, pageCall.value)
    /\ UNCHANGED <<pageCall, engineVars, routerVars, clockVars>>

----------------------------------------------------------------------------
(* The extension's specification *)

ClockIdle ==
    /\ timeStr = NoClock
    /\ converted = <<>>

EngineIdle ==
    /\ strategy = "token"
    /\ tz = 60
    /\ pages = <<>>
    /\ dom = <<>>
    /\ cachedToken = Null
    /\ tokenHist = "never"
    /\ lastToken = Null
    /\ nCmd = 0
    /\ proc = [c \in Commands |-> IdleProc]

RouterIdle ==
    /\ tabs = [t \in TabIds |-> Unused]
    /\ active = NoTab
    /\ genieTabs = {}
    /\ inbox = <<>>
    /\ outbox = <<>>
    /\ tasks = EmptyBag
    /\ pending = [t \in TabIds |-> 0]
    /\ posted = [t \in TabIds |-> NoPost]
    /\ nSync = 0
    /\ externalEvents = [t \in TabIds |-> <<>>]
    /\ relayed = <<>>

Init == EngineIdle /\ RouterIdle /\ ClockIdle /\ HookIdle

Next ==
    \/ RouterReceive /\ UNCHANGED <<engineVars, clockVars, hookVars>>
    \/ \E task \in BagToSet(tasks) : FetchResolve(task) /\ UNCHANGED <<engineVars, clockVars, hookVars>>
    \/ \E task \in BagToSet(tasks) : ClickResolve(task) /\ UNCHANGED <<engineVars, clockVars, hookVars>>
    \/ \E task \in BagToSet(tasks) : CommandResolve(task) /\ UNCHANGED <<engineVars, clockVars, hookVars>>
    \/ Deliver /\ UNCHANGED <<engineVars, clockVars, hookVars>>
    \/ \E t \in TabIds, reached \in BOOLEAN : LoadScript(t, reached) /\ UNCHANGED <<engineVars, clockVars, hookVars>>
    \/ \E t \in TabIds, reached \in BOOLEAN :
           nSync < MaxSyncs /\ PageRequest(t, reached) /\ UNCHANGED <<engineVars, clockVars, hookVars>>
    \/ \E t \in TabIds, reply \in EngineReplies : EngineReply(t, reply) /\ UNCHANGED <<engineVars, clockVars, hookVars>>
    \/ ToolbarClick /\ UNCHANGED <<engineVars, clockVars, hookVars>>
    \/ Shortcut /\ UNCHANGED <<engineVars, clockVars, hookVars>>
    \/ \E url \in Urls : OpenTab(url) /\ UNCHANGED <<engineVars, clockVars, hookVars>>
    \/ \E t \in TabIds : CloseTab(t) /\ UNCHANGED <<engineVars, clockVars, hookVars>>

Spec == Init /\ [][Next]_vars

----------------------------------------------------------------------------
(* Overlapping syncs: two Genie pages and one Outlook tab, all loaded and   *)
(* the pages registered (a state Spec reaches), and up to MaxOverlap page   *)
(* requests in one behaviour                                                *)

\* an event as the scraper yields it when it finds a weekday but no date
UndatedEvent ==
    [title |-> Lunch, start |-> HHMM(13, 0), end |-> HHMM(14, 0),
     date |-> Null, day |-> dayNames[2]]

OverlapReplies ==
    { EventsReady(<<SampleEvent(Standup)>>),
      EventsReadyWeek(<<UndatedEvent, SampleEvent(Review)>>, IsoOfDay(8)),
      FetchError(ErrNoToken) }

Loaded(url) == [url |-> url, loaded |-> TRUE]

OverlapTabs ==
    [t \in TabIds |-> IF t = 1 THEN Loaded(geniePatterns[1])
                      ELSE IF t = 2 THEN Loaded(outlookPatterns[1])
                      ELSE IF t = 3 THEN Loaded(geniePatterns[2])
                      ELSE Unused]

Consumers == {t \in TabIds : OverlapTabs[t].url \in GenieUrls}

InitOverlap ==
    /\ EngineIdle
    /\ ClockIdle
    /\ HookIdle
    /\ tabs = OverlapTabs
    /\ active = 1
    /\ genieTabs = Consumers
    /\ inbox = <<>>
    /\ outbox = <<>>
    /\ tasks = EmptyBag
    /\ pending = [t \in TabIds |-> 0]
    /\ posted = [t \in TabIds |-> NoPost]
    /\ nSync = 0
    /\ externalEvents = [t \in TabIds |-> <<>>]
    /\ relayed = <<>>

NextOverlap ==
    \/ \E t \in TabIds, reached \in BOOLEAN :
           nSync < MaxOverlap /\ PageRequest(t, reached) /\ UNCHANGED <<engineVars, clockVars, hookVars>>
    \/ RouterReceive /\ UNCHANGED <<engineVars, clockVars, hookVars>>
    \/ \E task \in BagToSet(tasks) : FetchResolve(task) /\ UNCHANGED <<engineVars, clockVars, hookVars>>
    \/ Deliver /\ UNCHANGED <<engineVars, clockVars, hookVars>>
    \/ \E t \in TabIds, reply \in OverlapReplies : EngineReply(t, reply) /\ UNCHANGED <<engineVars, clockVars, hookVars>>

SpecOverlap == InitOverlap /\ [][NextOverlap]_vars

----------------------------------------------------------------------------
(* The engine's specification *)

Strategies == {"token", "rest", "scrape"}

InitEngine ==
    /\ strategy \in Strategies
    /\ tz \in TzOffsets
    /\ pages \in IF strategy \in ApiStrategies THEN PageSets(strategy) ELSE {<<>>}
    /\ dom \in IF strategy = "scrape" THEN Doms ELSE {<<>>}
    /\ cachedToken = Null
    /\ tokenHist = "never"
    /\ lastToken = Null
    /\ nCmd = 0
    /\ proc = [c \in Commands |-> IdleProc]
    /\ RouterIdle
    /\ ClockIdle
    /\ HookIdle

NextEngine ==
    \/ \E token \in Tokens \cup {""} : TokenCaptured(token)
    \/ FetchCommandApi
    \/ FetchCommandScrape
    \/ \E c \in Commands, status \in Statuses, body \in Bodies : FirstResponse(c, status, body)
    \/ \E c \in Commands, status \in Statuses : PageResponse(c, status)

SpecEngine == InitEngine /\ [][NextEngine]_vars

----------------------------------------------------------------------------
(* The two halves side by side: a behaviour is either one of the service   *)
(* worker with its tabs (the engine's answers being any of EngineReplies)  *)
(* or one of an Outlook content script with its provider or page           *)

\* an Outlook page with its provider's answer or its DOM is being modelled
EngineRuns == strategy = "scrape" \/ pages # <<>>

InitParts == Init \/ InitEngine

NextParts ==
    \/ ~EngineRuns /\ Next
    \/ EngineRuns /\ NextEngine

SpecParts == InitParts /\ [][NextParts]_vars

----------------------------------------------------------------------------
(* to24h on its own: every text its pattern /(\d{1,2}):(\d{2})\s*([AP]M)/i   *)
(* can match                                                               *)

Digits == 0..9
Meridiems == {"AM", "PM", "am", "pm"}

\* the texts the pattern matches: an hour of one or two digits, two minute
\* digits, a meridiem in either case
ClockTexts ==
    { Clock(h, <<m1, m2>>, ampm) :
        h \in {10 * a + b : a \in Digits, b \in Digits},
        m1 \in Digits, m2 \in Digits, ampm \in Meridiems }

InitClock ==
    /\ EngineIdle
    /\ RouterIdle
    /\ HookIdle
    /\ timeStr \in ClockTexts
    /\ converted = <<>>

CallTo24h ==
    /\ converted = <<>>
    /\ converted' = to24h(timeStr)
    /\ UNCHANGED <<timeStr, engineVars, routerVars, hookVars>>

NextClock == CallTo24h

SpecClock == InitClock /\ [][NextClock]_vars

----------------------------------------------------------------------------
(* The interceptor on its own: one fetch call, or one XMLHttpRequest opened *)
(* and given one header                                                    *)

InitHook ==
    /\ EngineIdle
    /\ RouterIdle
    /\ ClockIdle
    /\ pageCall \in FetchCalls \cup XhrCalls
    /\ effect = NoEffect

NextHook ==
    \/ CallFetch
    \/ CallOpen
    \/ CallSetRequestHeader

SpecHook == InitHook /\ [][NextHook]_vars

----------------------------------------------------------------------------
(* Properties of to24h (checked under SpecClock) *)

\* the hour and minute of an "HH:MM" result
HourOf(hhmm) == 10 * hhmm[1] + hhmm[2]
MinuteOf(hhmm) == 10 * hhmm[3] + hhmm[4]

\* C11: for every hour 1..12, minute 00..59 and meridiem (in either case),
\* to24h returns four digits HH:MM with the minute unchanged, 12 AM as hour 00,
\* 12 PM as 12, 1..11 PM as 13..23 and 1..11 AM unchanged.
C11_To24h ==
    (converted # <<>> /\ timeStr.h \in 1..12 /\ 10 * timeStr.mm[1] + timeStr.mm[2] \in 0..59)
    => /\ Len(converted) = 4
       /\ \A i \in 1..4 : converted[i] \in Digits
       /\ MinuteOf(converted) = 10 * timeStr.mm[1] + timeStr.mm[2]
       /\ HourOf(converted) =
             IF timeStr.ampm \in {"AM", "am"}
             THEN (IF timeStr.h = 12 THEN 0 ELSE timeStr.h)
             ELSE (IF timeStr.h = 12 THEN 12 ELSE timeStr.h + 12)

\* C11 witness: "12:15 am" has been converted to 00:15.
C11_Witness ==
    /\ timeStr = Clock(12, <<1, 5>>, "am")
    /\ converted = <<0, 0, 1, 5>>

----------------------------------------------------------------------------
(* Properties of the service worker (checked under Spec) *)

\* the chrome.tabs.sendMessage calls made by the step
SentByStep == SubSeq(outbox', Len(outbox) + 1, Len(outbox'))

\* the listener takes the engine's message `type` off the inbox
Relays(type) ==
    /\ inbox # <<>>
    /\ inbox' = Tail(inbox)
    /\ Head(inbox).msg.type = type

\* the step sends exactly one copy of msg to each registered tab
BroadcastOf(msg) ==
    /\ Len(outbox') >= Len(outbox)
    /\ SubSeq(outbox', 1, Len(outbox)) = outbox
    /\ Len(SentByStep) = Cardinality(genieTabs)
    /\ {SentByStep[i].to : i \in 1..Len(SentByStep)} = genieTabs
    /\ \A i \in 1..Len(SentByStep) : SentByStep[i].msg = msg

\* C1: for every result the engine reports to the worker (OUTLOOK_EVENTS_READY
\* with an events list, OUTLOOK_FETCH_ERROR with a reason) the worker sends a
\* relay carrying that same list / reason to every tab that is in genieTabs at
\* that moment, and to no other tab.
C1_BroadcastToRegistry ==
    [][ /\ Relays("OUTLOOK_EVENTS_READY")
           => BroadcastOf(RelayEvents(Head(inbox).msg.events))
        /\ Relays("OUTLOOK_FETCH_ERROR")
           => BroadcastOf(FetchError(Head(inbox).msg.error)) ]_vars

\* C1 witness: one non-empty events list is on its way to two registered tabs,
\* one of which never asked for a sync.
C1_Witness ==
    \E i, j \in 1..Len(outbox) :
        /\ outbox[i].to # outbox[j].to
        /\ {outbox[i].to, outbox[j].to} \subseteq genieTabs
        /\ outbox[i].msg.type = "RELAY_OUTLOOK_EVENTS"
        /\ outbox[i].msg = outbox[j].msg
        /\ Len(outbox[i].msg.events) > 0
        /\ nSync = 1

NoSourceOpen == \A t \in OpenTabs : tabs[t].url \notin OutlookUrls

\* the activation `task` of fetchFromOutlookTab returns in this step
Returns(task) ==
    /\ task.kind = "fetch"
    /\ tasks' = tasks (-) SetToBag({task})

\* C2: when fetchFromOutlookTab(requester) returns while no open tab matches any
\* of the four Outlook patterns, the only message it sends is the 'No Outlook
\* tab found' error to the requester: nothing to other registered tabs, and no
\* FETCH_CALENDAR_EVENTS to any tab.
C2_NoSourceOnlyRequester ==
    [][ \A task \in BagToSet(tasks) :
            (Returns(task) /\ NoSourceOpen /\ task.tab # NoTab)
            => outbox' = Append(outbox,
                   Send(task.tab, FetchError(ErrNoOutlook), "none", NoTab)) ]_vars

\* C2 witness: the error is queued for the requester alone while another
\* registered Genie tab is listening and no Outlook tab is open.
C2_Witness ==
    /\ NoSourceOpen
    /\ Len(outbox) = 1
    /\ outbox[1].msg = FetchError(ErrNoOutlook)
    /\ outbox[1].to \in genieTabs
    /\ \E u \in genieTabs : u # outbox[1].to /\ Listening(u) /\ tabs[u].url \in GenieUrls
    /\ tasks = EmptyBag
    /\ nSync = 1

\* a pending sendMessage settles in this step (only Deliver leaves all of
\* these unchanged while changing anything)
Settles ==
    /\ outbox # <<>>
    /\ UNCHANGED <<tabs, active, inbox, tasks, nSync>>

\* ... and it rejects: the destination has no listening content script
DeliveryFails == Settles /\ ~Listening(Head(outbox).to)

ToConsumer(call) == call.msg.type \in {"RELAY_OUTLOOK_EVENTS", "OUTLOOK_FETCH_ERROR"}

\* C12: whenever delivery of a worker-to-consumer message fails (a relayed
\* result, or the worker's own error to a requester), the destination is not
\* in genieTabs afterwards and the message is not sent again.
C12_SelfHealing ==
    [][ (DeliveryFails /\ ToConsumer(Head(outbox)))
        => /\ Head(outbox).to \notin genieTabs'
           /\ outbox' = Tail(outbox) ]_vars

\* the listener handles a GENIE_TAB_READY or FETCH_OUTLOOK_EVENTS sent by tab t
Announces(t) ==
    /\ inbox # <<>>
    /\ inbox' = Tail(inbox)
    /\ Head(inbox).from = t
    /\ Head(inbox).msg.type \in {"GENIE_TAB_READY", "FETCH_OUTLOOK_EVENTS"}

\* C13: a tab id is in genieTabs only if its Genie page has announced itself
\* and no delivery to it has failed since: a tab enters genieTabs only in a
\* step that handles its own GENIE_TAB_READY or FETCH_OUTLOOK_EVENTS (never by
\* a toolbar click or the keyboard shortcut), and a failed delivery to a
\* member takes it out.
C13_OnlyAnnounced ==
    [][ /\ \A t \in genieTabs' \ genieTabs : Announces(t)
        /\ (DeliveryFails /\ Head(outbox).to \in genieTabs)
           => Head(outbox).to \notin genieTabs' ]_vars

\* C14: registering is idempotent and cannot fail: handling a GENIE_TAB_READY
\* or FETCH_OUTLOOK_EVENTS of tab t leaves genieTabs equal to genieTabs with t
\* in it (unchanged when t was already a member), and a broadcast sends each
\* member exactly one message however often it has announced itself.
C14_RegisterIdempotent ==
    [][ /\ \A t \in TabIds :
              Announces(t) => /\ genieTabs' = genieTabs \cup {t}
                              /\ t \in genieTabs => genieTabs' = genieTabs
        /\ (Relays("OUTLOOK_EVENTS_READY") \/ Relays("OUTLOOK_FETCH_ERROR"))
           => \A t \in genieTabs :
                  Cardinality({i \in 1..Len(SentByStep) : SentByStep[i].to = t}) = 1 ]_vars

\* C14 witness: a Genie tab that is already registered (by its GENIE_TAB_READY)
\* has its FETCH_OUTLOOK_EVENTS next in the worker's queue.
C14_Witness ==
    \E t \in genieTabs :
        /\ inbox # <<>>
        /\ Head(inbox) = [from |-> t, msg |-> FetchRequested]
        /\ Listening(t) /\ tabs[t].url \in GenieUrls
        /\ tasks = EmptyBag
        /\ outbox = <<>>

\* C15: when the FETCH_CALENDAR_EVENTS sent to the located Outlook tab is
\* rejected (no listener in that tab), the worker sends one message, the
\* 'Could not communicate with the Outlook tab' error to the requester, and
\* nothing else: no other tab gets a message, no other Outlook tab is tried.
C15_UnreachableOnlyRequester ==
    [][ (DeliveryFails /\ Head(outbox).msg = FetchCommand /\ Head(outbox).req # NoTab)
        => /\ outbox' = Append(Tail(outbox),
                  Send(Head(outbox).req, FetchError(ErrUnreachable), "none", NoTab))
           /\ tasks' = tasks
           /\ genieTabs' = genieTabs ]_vars

\* C15 witness: the 'Could not communicate' error is queued for the requester
\* alone while a second Outlook tab is open and listening.
C15_Witness ==
    /\ Len(outbox) = 1
    /\ outbox[1].msg = FetchError(ErrUnreachable)
    /\ outbox[1].to \in genieTabs
    /\ tasks = EmptyBag
    /\ \E a, b \in OpenTabs :
           /\ a # b
           /\ tabs[a].url \in OutlookUrls /\ ~tabs[a].loaded
           /\ tabs[b].url \in OutlookUrls /\ tabs[b].loaded
    /\ \A t \in TabIds : pending[t] = 0

\* the tab with the smallest id among the open tabs on the k-th Outlook pattern
FirstTabOn(k) ==
    CHOOSE t \in OpenTabs :
        /\ tabs[t].url = outlookPatterns[k]
        /\ \A u \in OpenTabs : tabs[u].url = outlookPatterns[k] => t <= u

Matched(k) == \E t \in OpenTabs : tabs[t].url = outlookPatterns[k]

CommandsIn(calls) == {i \in 1..Len(calls) : calls[i].msg = FetchCommand}

FindGenieTab ==
    IF Query(geniePatterns[1]) # <<>> THEN Query(geniePatterns[1])[1]
    ELSE IF Query(geniePatterns[2]) # <<>> THEN Query(geniePatterns[2])[1]
    ELSE NoTab

\* what chrome.tabs.create would open
NextTabId == CHOOSE t \in TabIds : tabs[t] = Unused /\ \A u \in TabIds : tabs[u] = Unused => t <= u

\* chrome.action.onClicked listener run to its end on the current tabs and
\* registry, nothing else happening meanwhile: the registry it leaves, the
\* active tab, the tabs it opened and the tabs it called fetchFromOutlookTab for
ToolbarRun(clicked) ==
    LET genieTabId == IF FindGenieTab # NoTab THEN FindGenieTab ELSE clicked
    IN [registry |-> Register(genieTabId),
        focus    |-> active,
        opened   |-> {},
        fetchFor |-> {genieTabId}]

\* chrome.commands.onCommand listener run to its end in the same way
ShortcutRun ==
    IF FindGenieTab # NoTab
    THEN [registry |-> Register(FindGenieTab),
          focus    |-> FindGenieTab,
          opened   |-> {},
          fetchFor |-> {FindGenieTab}]
    ELSE [registry |-> Register(NextTabId),
          focus    |-> NextTabId,
          opened   |-> {NextTabId},
          fetchFor |-> {}]

\* C17: from the same open tabs and registry, the toolbar icon and the keyboard
\* shortcut leave the same registry, the same active tab, open the same tabs
\* and start the same fetch (hence the same FETCH_CALENDAR_EVENTS and
\* OUTLOOK_FETCH_ERROR messages).
C17_TriggersEquivalent ==
    (active # NoTab /\ (FindGenieTab # NoTab \/ \E t \in TabIds : tabs[t] = Unused))
    => ToolbarRun(active) = ShortcutRun

\* an awaited call of the activation `task` resolves in this step
Resolves(task) == CopiesIn(task, tasks') < CopiesIn(task, tasks)

\* a call of fetchFromOutlookTab begins in this step
StartsFetch ==
    \E x \in BagToSet(tasks') :
        x.kind = "fetch" /\ x.pat = 1 /\ CopiesIn(x, tasks') > CopiesIn(x, tasks)

\* C18: a manual trigger whose Genie-tab search ends with no tab on either
\* pattern opens one Genie tab and starts no fetch, so no FETCH_CALENDAR_EVENTS
\* is sent; the GENIE_TAB_READY of a tab starts no fetch either.
C18_OpensTabWithoutFetch ==
    [][ /\ \A task \in BagToSet(tasks) :
              /\ ( /\ task.kind \in {"click", "command"}
                   /\ task.pat = Len(geniePatterns)
                   /\ FindGenieTab = NoTab
                   /\ Resolves(task) )
                 => /\ tasks' = (tasks (-) SetToBag({task})) (+) SetToBag({Task("create", NoTab, 0)})
                    /\ CommandsIn(SentByStep) = {}
              /\ (task.kind = "create" /\ Resolves(task))
                 => /\ tabs'[NextTabId] = Fresh(geniePatterns[1])
                    /\ \A t \in TabIds \ {NextTabId} : tabs'[t] = tabs[t]
                    /\ ~StartsFetch
                    /\ CommandsIn(SentByStep) = {}
        /\ Relays("GENIE_TAB_READY") => (~StartsFetch /\ CommandsIn(SentByStep) = {}) ]_vars

\* C19: a manual trigger that finds a Genie tab which is not the active tab
\* first makes it the active tab and focuses its window, and only then starts
\* the fetch, with that Genie tab as the requester that fetch errors go to.
C19_FocusBeforeFetch ==
    [][ \A task \in BagToSet(tasks) :
            LET found == Query(geniePatterns[task.pat])
                rest == tasks (-) SetToBag({task})
            IN /\ ( /\ task.kind \in {"click", "command"}
                    /\ Resolves(task)
                    /\ found # <<>>
                    /\ found[1] # active )
                  => /\ ~StartsFetch
                     /\ tasks' = rest (+) SetToBag({Task("activate", found[1], 0)})
               /\ (task.kind = "activate" /\ Resolves(task) /\ Open(task.tab))
                  => /\ active' = task.tab
                     /\ tasks' = rest (+) SetToBag({Task("focus", task.tab, 0)})
               /\ (task.kind = "focus" /\ Resolves(task))
                  => tasks' = rest (+) SetToBag({Task("fetch", task.tab, 1)}) ]_vars

\* a Genie page posts READ_OUTLOOK_CALENDAR in this step ...
Requests == nSync' = nSync + 1 /\ tasks' = tasks

\* ... and the bridge's chrome.runtime.sendMessage rejects
ForwardFails == Requests /\ inbox' = inbox

\* C20: when the bridge cannot forward FETCH_OUTLOOK_EVENTS it posts one
\* OUTLOOK_BRIDGE_ERROR to its own page in that same step and nothing reaches
\* the service worker; when the forward succeeds it posts nothing, and a page
\* is posted to afterwards only when a message of the service worker is
\* delivered to its tab.
C20_ForwardFailure ==
    [][ /\ ForwardFails
           => \E t \in TabIds :
                  /\ Listening(t) /\ tabs[t].url \in GenieUrls
                  /\ posted'[t] = BridgeError(ErrWorker)
                  /\ \A u \in TabIds \ {t} : posted'[u] = posted[u]
        /\ (Requests /\ ~ForwardFails)
           => /\ posted' = posted
              /\ \E t \in TabIds : inbox' = Append(inbox, [from |-> t, msg |-> FetchRequested])
        /\ \A t \in TabIds :
              (posted'[t] # posted[t] /\ ~ForwardFails /\ Open(t) /\ tabs' = tabs)
              => /\ Settles
                 /\ Head(outbox).to = t
                 /\ Head(outbox).msg.type \in {"RELAY_OUTLOOK_EVENTS", "OUTLOOK_FETCH_ERROR"} ]_vars

\* C20 witness: a page holds the bridge's own error and nothing is on its way
\* to or from the service worker.
C20_Witness ==
    /\ \E t \in TabIds : Listening(t) /\ posted[t] = BridgeError(ErrWorker)
    /\ inbox = <<>> /\ outbox = <<>> /\ tasks = EmptyBag
    /\ nSync = 1

\* the page-level message that corresponds to a message of the service worker
PageMessageOf(message) ==
    IF message.type = "RELAY_OUTLOOK_EVENTS" THEN EventsImported(message.events)
    ELSE BridgeError(message.error)

\* C21: the service worker relays the engine's events list and error string
\* unchanged, and the Genie content script posts to its page exactly one
\* message per delivered worker message, of the corresponding kind and with
\* the same events list or error string; no other page is posted to.
C21_Verbatim ==
    [][ /\ Relays("OUTLOOK_EVENTS_READY")
           => \A i \in 1..Len(SentByStep) :
                  SentByStep[i].msg = RelayEvents(Head(inbox).msg.events)
        /\ Relays("OUTLOOK_FETCH_ERROR")
           => \A i \in 1..Len(SentByStep) :
                  SentByStep[i].msg = FetchError(Head(inbox).msg.error)
        /\ ( /\ Settles
             /\ Listening(Head(outbox).to)
             /\ tabs[Head(outbox).to].url \in GenieUrls
             /\ Head(outbox).msg.type \in {"RELAY_OUTLOOK_EVENTS", "OUTLOOK_FETCH_ERROR"} )
           => /\ posted'[Head(outbox).to] = PageMessageOf(Head(outbox).msg)
              /\ \A u \in TabIds \ {Head(outbox).to} : posted'[u] = posted[u] ]_vars

\* C21 witness: a Genie page has been handed the engine's two-event list.
C21_Witness ==
    \E t \in TabIds :
        /\ Listening(t) /\ tabs[t].url \in GenieUrls
        /\ posted[t] = EventsImported(<<SampleEvent(Lunch), SampleEvent(Review)>>)

----------------------------------------------------------------------------
(* Properties of overlapping syncs (checked under SpecOverlap) *)

\* a relayed events list is still on its way to tab t
RelayUnderway(t) ==
    \E i \in 1..Len(outbox) :
        outbox[i].to = t /\ outbox[i].msg.type = "RELAY_OUTLOOK_EVENTS"

\* every page that has been handed all relayed lists shows the last of them
LastRelayedShown ==
    \A t \in Consumers :
        (relayed # <<>> /\ ~RelayUnderway(t))
        => \E now \in WeekStarts :
               externalEvents[t] = ConvertAll(relayed[Len(relayed)], now)

\* C22: a page request that arrives while another fetch is running starts its
\* own fetch at once; each fetch sends its own FETCH_CALENDAR_EVENTS, each
\* delivered command is worked on until the engine answers it, and once the
\* relayed lists have reached a page its event list is the conversion of the
\* list relayed last, whatever was shown before.
C22_LastResultWins ==
    [][ /\ Relays("FETCH_OUTLOOK_EVENTS")
           => tasks' = tasks (+) StartFetchFrom(Head(inbox).from)
        /\ \A task \in BagToSet(tasks) :
              (Returns(task) /\ Matched(task.pat))
              => Cardinality(CommandsIn(SentByStep)) = 1
        /\ (Settles /\ Head(outbox).msg = FetchCommand /\ Listening(Head(outbox).to))
           => pending'[Head(outbox).to] = pending[Head(outbox).to] + 1
        /\ \A t \in TabIds :
              pending'[t] < pending[t]
              => /\ pending'[t] = pending[t] - 1
                 /\ Len(inbox') = Len(inbox) + 1
                 /\ inbox'[Len(inbox')].from = t
        /\ LastRelayedShown' ]_vars

\* C22 witness: two requests were made, two different lists were relayed and
\* delivered, and both pages show the second one.
C22_Witness ==
    /\ nSync = 2
    /\ Len(relayed) = 2
    /\ relayed[1] # relayed[2]
    /\ inbox = <<>> /\ outbox = <<>> /\ tasks = EmptyBag
    /\ \A t \in Consumers :
           /\ externalEvents[t] # <<>>
           /\ \E now \in WeekStarts : externalEvents[t] = ConvertAll(relayed[2], now)

\* nothing of any sync is still under way in the worker, the engine or between them
Quiescent ==
    /\ inbox = <<>> /\ outbox = <<>> /\ tasks = EmptyBag
    /\ \A t \in TabIds : pending[t] = 0

\* some Genie page has been handed an events or an error message
ConsumerTold ==
    \E t \in TabIds : tabs[t].url \in GenieUrls /\ posted[t] # NoPost

\* C25: once a page request or a manual trigger has run its course, with no
\* tab closed and every command answered, some Genie page has been handed an
\* events message or an error message.  (In such a state nothing is left that
\* could still post to a page.)
C25_FailureSurfaced ==
    (nSync > 0 /\ Quiescent /\ \A t \in TabIds : tabs[t] # Closed) => ConsumerTold


(* Properties of the relay of weekOf (checked under Spec) *)

\* the message carries a week (a weekOf that is not null)
HasWeekOf(message) == "weekOf" \in DOMAIN message /\ message.weekOf # Null

(* C34: when the engine's OUTLOOK_EVENTS_READY carries a weekOf, every
   RELAY_OUTLOOK_EVENTS the service worker sends for it carries that weekOf,
   and the message the Genie content script posts to its page for a relay
   with a weekOf carries it too. *)
C34_WeekOfDelivered ==
    [][ /\ (Relays("OUTLOOK_EVENTS_READY") /\ HasWeekOf(Head(inbox).msg))
           => \A i \in 1..Len(SentByStep) :
                  /\ HasWeekOf(SentByStep[i].msg)
                  /\ SentByStep[i].msg.weekOf = Head(inbox).msg.weekOf
        /\ ( /\ Settles
             /\ Listening(Head(outbox).to)
             /\ tabs[Head(outbox).to].url \in GenieUrls
             /\ Head(outbox).msg.type = "RELAY_OUTLOOK_EVENTS"
             /\ HasWeekOf(Head(outbox).msg) )
           => /\ HasWeekOf(posted'[Head(outbox).to])
              /\ posted'[Head(outbox).to].weekOf = Head(outbox).msg.weekOf ]_vars
----------------------------------------------------------------------------
(* Properties of the extraction engine (checked under SpecEngine) *)

Started == {c \in Commands : c <= nCmd}
Done == {c \in Commands : proc[c].pc = "done"}
Reported(c, type) == proc[c].pc = "done" /\ Len(proc[c].sent) = 1 /\ proc[c].sent[1].type = type
Succeeded == {c \in Commands : Reported(c, "OUTLOOK_EVENTS_READY")}
Failed == {c \in Commands : Reported(c, "OUTLOOK_FETCH_ERROR")}
EventsOf(c) == proc[c].sent[1].events

\* C3: every command received yields exactly one message to the service worker,
\* an OUTLOOK_EVENTS_READY or an OUTLOOK_FETCH_ERROR, sent when no request of
\* the activation is outstanding any more; until then nothing is sent.
C3_ExactlyOneResult ==
    \A c \in Commands :
        /\ Len(proc[c].sent) <= 1
        /\ \A i \in 1..Len(proc[c].sent) :
               proc[c].sent[i].type \in {"OUTLOOK_EVENTS_READY", "OUTLOOK_FETCH_ERROR"}
        /\ (c \in Started /\ proc[c].page = 0) <=> Len(proc[c].sent) = 1
        /\ c \notin Started => proc[c] = IdleProc

\* C3 witness: every command has been answered, one with events and one with an error.
C3_Witness ==
    /\ Succeeded # {}
    /\ Failed # {}
    /\ Done = Commands

C5_NoPartialResult ==
    \A c \in Done : proc[c].broke => c \in Failed

RECURSIVE Flatten(_)
Flatten(seqs) == IF seqs = <<>> THEN <<>> ELSE Head(seqs) \o Flatten(Tail(seqs))

\* C6: a fetch that reports OUTLOOK_EVENTS_READY has accumulated the events of
\* all pages of the answer, in page order, with one request per page (so two
\* such fetches of the same answer accumulate the same list).
C6_AccumulatesAllPages ==
    \A c \in Succeeded :
        strategy \in ApiStrategies =>
            /\ proc[c].acc = Flatten(pages)
            /\ proc[c].reqs = Len(pages)

\* The k-th smallest member of a set of numbers
Kth(S, k) == CHOOSE i \in S : Cardinality({j \in S : j < i}) = k - 1

\* C7: the events of an OUTLOOK_EVENTS_READY of an API variant are the
\* normalised accumulated events that the provider does not mark free, each
\* once and in order; no event marked free is among them.
C7_FreeFilteredOnly ==
    \A c \in Succeeded :
        strategy \in ApiStrategies =>
            LET acc == proc[c].acc
                busy == {i \in 1..Len(acc) : acc[i].showAs # FreeMarker(strategy)}
            IN /\ Len(EventsOf(c)) = Cardinality(busy)
               /\ \A k \in 1..Len(EventsOf(c)) :
                      EventsOf(c)[k] = NormalizeEvent(strategy, acc[Kth(busy, k)])

\* C7 witness: a successful API fetch accumulated a free event and one that is not free.
C7_Witness ==
    \E c \in Succeeded :
        /\ strategy \in ApiStrategies
        /\ \E i \in 1..Len(proc[c].acc) : proc[c].acc[i].showAs = FreeMarker(strategy)
        /\ \E i \in 1..Len(proc[c].acc) : proc[c].acc[i].showAs # FreeMarker(strategy)

Dated(t) == t.match /\ t.valid

\* Whether the label of an element, or one of its first 12 ancestors, holds a
\* weekday or a date that Date can parse
HasDateInfo(el) ==
    \/ el.inline.match
    \/ Dated(el.numeric)
    \/ \E j \in 1..Len(el.ancestors) :
           /\ j <= MaxAncestorDepth
           /\ \/ Dated(el.ancestors[j].dataDate)
              \/ Dated(el.ancestors[j].inline)
              \/ Dated(el.ancestors[j].numeric)

RangeElements == {i \in 1..Len(dom) : dom[i].time.kind = "range"}

C9_StartBeforeEnd ==
    \A c \in Succeeded :
        \A k \in 1..Len(EventsOf(c)) :
            TimeLess(EventsOf(c)[k].start, EventsOf(c)[k].end)

\* The parts the claim names: resolved date (or, with no date, the day), the
\* normalised start and end, and the first 40 characters of the title
SameEvent(a, b) ==
    /\ (IF a.date # Null THEN a.date ELSE a.day) = (IF b.date # Null THEN b.date ELSE b.day)
    /\ a.start = b.start
    /\ a.end = b.end
    /\ Slice(a.title, KeyPrefixLen) = Slice(b.title, KeyPrefixLen)

\* The elements that are the first, in document order, of their kind
FirstOfKind ==
    {i \in RangeElements :
        \A j \in RangeElements :
            j < i => ~SameEvent(ScrapeEvent(dom[j]), ScrapeEvent(dom[i]))}

\* C10: the scraper's output holds, in document order, the event of each
\* element that is the first with its date-or-day, start, end and title
\* prefix, and nothing else: elements that agree on the four contribute one
\* event, the first one's.
C10_Deduplicated ==
    \A c \in Succeeded :
        strategy = "scrape" =>
            /\ Len(EventsOf(c)) = Cardinality(FirstOfKind)
            /\ \A k \in 1..Len(EventsOf(c)) :
                   EventsOf(c)[k] = ScrapeEvent(dom[Kth(FirstOfKind, k)])
            /\ \A k, l \in 1..Len(EventsOf(c)) :
                   k # l => ~SameEvent(EventsOf(c)[k], EventsOf(c)[l])

\* C10 witness: two different elements resolve to the same event and one event is reported.
C10_Witness ==
    /\ strategy = "scrape"
    /\ \E c \in Succeeded : Len(EventsOf(c)) = 1
    /\ \E i, j \in RangeElements :
           /\ i < j
           /\ dom[i] # dom[j]
           /\ SameEvent(ScrapeEvent(dom[i]), ScrapeEvent(dom[j]))

\* the activation has a request in flight
InFlight(p) == p.pc \in {"first", "page"}

\* C23: an activation of fetchCalendarEvents sends one request at a time: the
\* first when the command is handled, and the request for page n+1 in the step
\* in which the response for page n has arrived and its events have been added
\* to allEvents; while a request is in flight, exactly one request of the
\* activation is unanswered.
C23_Sequential ==
    [][ \A c \in Commands :
           /\ proc'[c].reqs \in {proc[c].reqs, proc[c].reqs + 1}
           /\ proc'[c].reqs = proc[c].reqs + 1
              => \/ proc[c].pc = "idle" /\ proc'[c].page = 1
                 \/ /\ InFlight(proc[c])
                    /\ proc'[c].page = proc[c].page + 1
                    /\ proc'[c].acc = proc[c].acc \o pages[proc[c].page]
           /\ InFlight(proc'[c]) => proc'[c].reqs = proc'[c].page
           /\ ~InFlight(proc'[c]) => proc'[c].page = 0 ]_vars

\* C23 witness: the second page has been requested after the first one's
\* events were taken in.
C23_Witness ==
    \E c \in Commands :
        /\ proc[c].pc = "page" /\ proc[c].page = 2 /\ proc[c].reqs = 2
        /\ proc[c].acc = pages[1] /\ pages[1] # <<>>

----------------------------------------------------------------------------
(* Properties of both halves (checked under SpecParts) *)

\* C24: nothing is retried.  Service worker: FETCH_CALENDAR_EVENTS is sent
\* only by the step in which a fetchFromOutlookTab activation returns, one per
\* activation, and an activation begins only when FETCH_OUTLOOK_EVENTS is
\* received or a trigger handler reaches its call; a failed delivery or a
\* relayed error starts none.  Engine: an activation that has reported is
\* finished, a report of failure comes with no new request, and a request is
\* only ever made for the first page when the command is handled or for the
\* page after the one just answered, never again for a page already requested.
C24_NoRetry ==
    [][ /\ CommandsIn(SentByStep) # {}
           => /\ Cardinality(CommandsIn(SentByStep)) = 1
              /\ \E task \in BagToSet(tasks) : Returns(task)
        /\ StartsFetch
           => \/ Relays("FETCH_OUTLOOK_EVENTS")
              \/ \E task \in BagToSet(tasks) :
                     task.kind \in {"click", "focus"} /\ Resolves(task)
        /\ (\E x \in BagToSet(tasks') :
                x.kind \in {"click", "command"} /\ x.pat = 1
                /\ CopiesIn(x, tasks') > CopiesIn(x, tasks))
           => nSync' = nSync + 1
        /\ \A c \in Commands :
              /\ proc[c].pc = "done" => proc'[c] = proc[c]
              /\ proc'[c].reqs # proc[c].reqs
                 => \/ proc[c].pc = "idle" /\ nCmd' = nCmd + 1 /\ proc'[c].page = 1
                    \/ InFlight(proc[c]) /\ proc'[c].page = proc[c].page + 1
              /\ ( /\ proc'[c].sent # proc[c].sent
                   /\ proc'[c].sent[Len(proc'[c].sent)].type = "OUTLOOK_FETCH_ERROR" )
                 => /\ proc'[c].pc = "done"
                    /\ proc'[c].reqs = proc[c].reqs ]_vars

\* C24 witness: a fetch failed on a provider error after its one request, and
\* no other command has been received.
C24_Witness ==
    /\ nCmd = 1
    /\ proc[1].pc = "done"
    /\ proc[1].sent = <<FetchError(ErrGraph(500))>>
    /\ proc[1].reqs = 1

\* C26: in the token variant, a command handled before any token was captured
\* is answered at once with the "no session token captured yet" error and
\* makes no request.
C26_NoTokenFailsAtOnce ==
    \A c \in Started :
        (strategy = "token" /\ proc[c].hist = "never")
        => /\ proc[c].pc = "done"
           /\ proc[c].reqs = 0
           /\ proc[c].sent = <<FetchError(ErrNoToken)>>

\* C26 witness: a command was handled with no token ever captured.
C26_Witness ==
    /\ strategy = "token"
    /\ tokenHist = "never"
    /\ nCmd = 1
    /\ proc[1].sent = <<FetchError(ErrNoToken)>>

\* C27: as long as no 401 has cleared the cache since, cachedToken is the token
\* of the last AG_TOKEN_CAPTURED that carried one (null before the first), a
\* broadcast without a token changing nothing; and the first request of each
\* fetch carries the token that was cached when its command was handled.
C27_MostRecentToken ==
    [][ /\ tokenHist' # "cleared401" => cachedToken' = lastToken'
        /\ tokenHist' = "cleared401" => cachedToken' = Null
        /\ \A c \in Commands :
              (strategy = "token" /\ proc[c].pc = "idle" /\ proc'[c].pc = "first")
              => /\ proc'[c].auth = cachedToken
                 /\ cachedToken \in Tokens ]_vars

\* C27 witness: two different tokens were captured in turn and the first
\* request of a fetch carries the second.
C27_Witness ==
    \E c \in Commands :
        /\ proc[c].pc = "first"
        /\ proc[c].auth = lastToken
        /\ \E d \in Commands : d # c /\ proc[d].pc = "first" /\ proc[d].auth \in Tokens \ {lastToken}

----------------------------------------------------------------------------
(* Properties of the interceptor (checked under SpecHook) *)

\* C28: each wrapper invokes the primitive it wraps exactly once, with the
\* caller's arguments, and does not throw: fetch for a fetch call, open and
\* then setRequestHeader for an XMLHttpRequest, whatever the arguments are.
C28_CallUnaltered ==
    /\ (pageCall.api = "fetch" /\ effect.stage = "done")
       => /\ ~effect.threw
          /\ effect.orig = <<[prim |-> "fetch", a |-> pageCall.input, b |-> pageCall.init]>>
    /\ (pageCall.api = "xhr" /\ effect.stage = "opened")
       => /\ ~effect.threw
          /\ effect.orig = <<[prim |-> "open", a |-> "GET", b |-> pageCall.url]>>
    /\ (pageCall.api = "xhr" /\ effect.stage = "done")
       => /\ ~effect.threw
          /\ Len(effect.orig) = 2
          /\ effect.orig[1] = [prim |-> "open", a |-> "GET", b |-> pageCall.url]
          /\ effect.orig[2] =
                [prim |-> "setRequestHeader", a |-> pageCall.name, b |-> pageCall.value]

\* where the call goes, whatever form its URL argument has
Destination ==
    IF pageCall.api = "fetch" THEN pageCall.input.url.host ELSE pageCall.url.url.host

\* the value of the Authorization header the call carries (the empty string if none)
Authorization ==
    IF pageCall.api = "fetch"
    THEN LET h == HeadersOfCall(pageCall.input, pageCall.init)
         IN IF h.kind # "none" /\ toLowerCase(h.name) = "authorization" /\ h.value.str
            THEN h.value ELSE EmptyStr
    ELSE IF pageCall.name.str /\ toLowerCase(pageCall.name.text) = "authorization"
            /\ pageCall.value.str
         THEN pageCall.value ELSE EmptyStr

\* C29: the wrappers post AG_TOKEN_CAPTURED exactly once, with the credential
\* that follows 'Bearer ', for a call to graph.microsoft.com that carries an
\* Authorization header with the Bearer scheme, and post nothing for any
\* other call.
C29_BroadcastIffBearerToGraph ==
    effect.stage = "done"
    => effect.emitted =
           IF Destination = GRAPH_HOST /\ startsWith(Authorization.text, BearerPrefix)
           THEN <<[type |-> TOKEN_MSG, token |-> Credential]>>
           ELSE <<>>


(* Properties of the scraper's listener (checked under SpecEngine) *)

(* C30: under the scrape strategy, a command handled on a page where no
   labelled element matches a time range is answered by OUTLOOK_FETCH_ERROR
   with the 'No calendar events found' text and by nothing else, and every
   OUTLOOK_EVENTS_READY the scraper sends carries at least one event. *)
NoElementMatches == \A i \in 1..Len(dom) : dom[i].time.kind # "range"

C30_NoEmptyEventsReady ==
    strategy = "scrape" =>
        \A c \in 1..nCmd :
            /\ NoElementMatches => proc[c].sent = <<FetchError(ErrNoEvents)>>
            /\ \A i \in 1..Len(proc[c].sent) :
                   proc[c].sent[i].type = "OUTLOOK_EVENTS_READY"
                       => Len(proc[c].sent[i].events) >= 1

C30_Witness ==
    /\ strategy = "scrape"
    /\ dom # <<>>
    /\ NoElementMatches
    /\ nCmd >= 1
    /\ proc[1].sent = <<FetchError(ErrNoEvents)>>


(* Properties of the first response (checked under SpecEngine) *)

\* the text of a failure report after its first n characters
TextAfter(text, n) == SubSeq(text, n + 1, Len(text))

\* text is one of the first characters of body, at most BodyMaxLen of them
LeadingPartOf(text, body) ==
    /\ Len(text) <= BodyMaxLen
    /\ Len(text) <= Len(body)
    /\ text = SubSeq(body, 1, Len(text))

\* activation c receives a first response that is neither 2xx nor 401
RejectedFirst(c) ==
    /\ proc[c].pc = "first"
    /\ proc'[c].pc = "done"
    /\ ~Ok(proc'[c].resp.status)
    /\ proc'[c].resp.status # 401

(* C31: under the token strategy a first response that is neither 2xx nor 401
   ends the fetch with one OUTLOOK_FETCH_ERROR whose text is 'Graph API error',
   the status code and, when a body was read, ': ' and at most 120 leading
   characters of it; the cached token is left as it was, and a command
   handled while a token is cached sends its first request with that token. *)
C31_HttpErrorKeepsToken ==
    [][ strategy = "token" =>
          /\ \A c \in Commands :
                RejectedFirst(c) =>
                    LET r == proc'[c].resp
                        head == "Graph API error " \o ToString(r.status)
                    IN /\ Len(proc'[c].sent) = 1
                       /\ proc'[c].sent[1].type = "OUTLOOK_FETCH_ERROR"
                       /\ LET e == proc'[c].sent[1].error
                          IN /\ Len(e) >= Len(head)
                             /\ SubSeq(e, 1, Len(head)) = head
                             /\ \/ TextAfter(e, Len(head)) = ""
                                \/ /\ SubSeq(TextAfter(e, Len(head)), 1, 2) = ": "
                                   /\ LeadingPartOf(TextAfter(e, Len(head) + 2), r.body)
                       /\ cachedToken' = cachedToken
          /\ (nCmd' = nCmd + 1 /\ cachedToken # Null) =>
                /\ proc'[nCmd'].pc = "first"
                /\ proc'[nCmd'].auth = cachedToken
      ]_vars

C31_Witness ==
    /\ strategy = "token"
    /\ nCmd = 2
    /\ proc[1].pc = "done"
    /\ proc[1].resp.status = 500
    /\ Len(proc[1].resp.body) > BodyMaxLen
    /\ Len(proc[1].sent[1].error) = Len("Graph API error 500: ") + BodyMaxLen
    /\ proc[2].pc = "first"
    /\ proc[2].auth = cachedToken
    /\ cachedToken = lastToken


(* Properties of readCalendarFromDom (checked under SpecEngine) *)

\* the events of the report activation c has sent (none when it reported a failure)
Scraped(c) ==
    IF proc[c].sent[1].type = "OUTLOOK_EVENTS_READY" THEN proc[c].sent[1].events ELSE <<>>

\* the activations of the scraper that have reported
ScrapeRuns == {c \in 1..nCmd : strategy = "scrape" /\ proc[c].pc = "done"}

(* C32: every scraped event comes from a labelled element whose label holds a
   full start-end range, different events from different such elements, in
   document order; an element whose label holds a single clock time or none
   contributes no event. *)
C32_OnlyFullRanges ==
    \A c \in ScrapeRuns :
        \E from \in [1..Len(Scraped(c)) -> 1..Len(dom)] :
            /\ \A k \in 1..Len(Scraped(c)) :
                   /\ dom[from[k]].time.kind = "range"
                   /\ Scraped(c)[k].start = to24h(dom[from[k]].time.s)
                   /\ Scraped(c)[k].end = to24h(dom[from[k]].time.e)
                   /\ Scraped(c)[k].title = ExtractTitle(dom[from[k]])
            /\ \A j, k \in 1..Len(Scraped(c)) : j < k => from[j] < from[k]

C32_Witness ==
    /\ Len(dom) = 2
    /\ dom[1].time.kind = "single"
    /\ dom[2].time.kind = "range"
    /\ 1 \in ScrapeRuns
    /\ Len(Scraped(1)) = 1


\* the date each strategy yields for an element on its own (Null when it yields none)
OwnInlineDate(el) == IF Dated(el.inline) THEN toISODate(ParseDateText(el.inline)) ELSE Null
OwnNumericDate(el) == IF Dated(el.numeric) THEN toISODate(ParseDateText(el.numeric)) ELSE Null

\* the date an ancestor carries: its date attribute, else its dated label
CarriedDate(node) ==
    IF Dated(node.dataDate) THEN toISODate(ParseDateText(node.dataDate))
    ELSE IF Dated(node.inline) THEN toISODate(ParseDateText(node.inline))
    ELSE IF Dated(node.numeric) THEN toISODate(ParseDateText(node.numeric))
    ELSE Null

\* the date of the nearest of the first 12 ancestors that carries one
NearestAncestorDate(el) ==
    LET near == {j \in 1..Len(el.ancestors) :
                    j <= MaxAncestorDepth /\ CarriedDate(el.ancestors[j]) # Null}
    IN IF near = {} THEN Null
       ELSE CarriedDate(el.ancestors[CHOOSE j \in near : \A i \in near : j <= i])

FirstSuccess(el) ==
    IF OwnInlineDate(el) # Null THEN OwnInlineDate(el)
    ELSE IF OwnNumericDate(el) # Null THEN OwnNumericDate(el)
    ELSE NearestAncestorDate(el)

(* C33: the date of every scraped event is the date of the first of (a) the
   weekday-and-date of the element's label, (b) the numeric date of the label,
   (c) the nearest of the first 12 ancestors carrying a date, that yields a
   date; it is null when none does, whatever ancestors beyond the 12th carry. *)
C33_FirstSuccessWins ==
    \A c \in ScrapeRuns :
        \E from \in [1..Len(Scraped(c)) -> RangeElements] :
            /\ \A k \in 1..Len(Scraped(c)) :
                   /\ Scraped(c)[k].start = to24h(dom[from[k]].time.s)
                   /\ Scraped(c)[k].end = to24h(dom[from[k]].time.e)
                   /\ Scraped(c)[k].title = ExtractTitle(dom[from[k]])
                   /\ Scraped(c)[k].date = FirstSuccess(dom[from[k]])
            /\ \A j, k \in 1..Len(Scraped(c)) : j < k => from[j] < from[k]

\* several sources at once: label and ancestor disagree, and an ancestor beyond the 12th is dated
C33_Witness ==
    /\ Len(dom) = 2
    /\ OwnInlineDate(dom[1]) # Null
    /\ OwnNumericDate(dom[1]) # Null
    /\ OwnNumericDate(dom[1]) # OwnInlineDate(dom[1])
    /\ NearestAncestorDate(dom[1]) # Null
    /\ Len(dom[2].ancestors) > MaxAncestorDepth
    /\ CarriedDate(dom[2].ancestors[MaxAncestorDepth + 1]) # Null
    /\ 1 \in ScrapeRuns
    /\ Len(Scraped(1)) = 2
    /\ Scraped(1)[1].date = OwnInlineDate(dom[1])
    /\ Scraped(1)[2].date = Null


(* Properties of the token cache under concurrency (checked under SpecEngine) *)

\* activation c receives a 401 for its first request
Unauthorized(c) ==
    /\ proc[c].pc = "first"
    /\ proc'[c].pc = "done"
    /\ proc'[c].resp.status = 401

(* C35: a 401 discards the token the rejected request carried and no other:
   when a newer token has been captured while the request was in flight, that
   token is still cached after the 401 (and is the one a later command uses). *)
C35_DiscardsOnlyUsedToken ==
    [][ strategy = "token" =>
          \A c \in Commands :
              Unauthorized(c) =>
                  cachedToken' = IF cachedToken = proc[c].auth THEN Null ELSE cachedToken
      ]_vars


\* activation c sends a request for a continuation page
RequestsPage(c) ==
    /\ proc[c].pc \in {"first", "page"}
    /\ proc'[c].pc = "page"

(* C36: every continuation page of a fetch is requested with the credential
   of the request before it, hence of the fetch's first request, whatever
   token is captured or cleared in between, and never with an empty one. *)
C36_SameTokenOnEveryPage ==
    [][ strategy = "token" =>
          \A c \in Commands :
              RequestsPage(c) =>
                  /\ proc'[c].auth = proc[c].auth
                  /\ proc'[c].auth # Null
      ]_vars


\* the weekday name of an ISO date of March 2026
WeekdayOf(date) == dayNames[((DayOfIso(date) - 1) % 7) + 1]

(* C37: in every scraped event that has a date and a day, the day is the
   weekday name of the date, also when the weekday was read from the element's
   own label and the date from its numeric date or from an ancestor. *)
C37_DayIsWeekdayOfDate ==
    \A c \in ScrapeRuns :
        \A k \in 1..Len(Scraped(c)) :
            (Scraped(c)[k].date # Null /\ Scraped(c)[k].day # Null)
                => Scraped(c)[k].day = WeekdayOf(Scraped(c)[k].date)


(* Properties of to24h on every text of the pattern (checked under SpecClock) *)

(* C38: for every text the time pattern matches (an hour of one or two
   digits, two minute digits, AM or PM in either case) to24h returns HH:MM
   with HH in 00..23 and MM in 00..59. *)
C38_ValidClockTime ==
    converted # <<>> =>
        /\ Len(converted) = 4
        /\ \A i \in 1..4 : converted[i] \in Digits
        /\ HourOf(converted) \in 0..23
        /\ MinuteOf(converted) \in 0..59

====
